---- MODULE Spec2Model ----
(***************************************************************************)
(* Model of the retry-group coordinator of aponysus/recourse               *)
(* (package retry, Executor.doRetryGroup): one primary attempt, the hedge  *)
(* spawner goroutine, the attempt goroutines and the coordinator's result  *)
(* loop, with the caller's terminal observer callback after the group.     *)
(***************************************************************************)
EXTENDS Integers, Sequences, FiniteSets, TLC

VARIABLES budget, norm, call, pol, missingTriggerMode, recoverPanics, ctxDone, idleAtCancel, groupCancelled,
          activeAttempts, attemptsLaunched, att, results, spawner, ticker,
          coord, terminal, crashed

vars == <<budget, norm, call, pol, missingTriggerMode, recoverPanics, ctxDone, idleAtCancel, groupCancelled,
          activeAttempts, attemptsLaunched, att, results, spawner, ticker,
          coord, terminal, crashed>>

(* ---------------------------- bounds ----------------------------------- *)

\* Largest Hedge.MaxHedges explored.
MaxHedgesBound == 1

\* Largest elapsed time read from the clock (one unit is 10ms).
MaxTime == 2

\* Largest Retry.MaxAttempts explored.
MaxAttemptsBound == 3

\* Largest Hedge.MaxHedges explored with attempts that stay inside op.
MaxHedgesRunning == 2

\* Number of goroutines calling AllowAttempt on one token bucket.
MaxWorkers == 2

\* Largest number of AllowAttempt calls of one goroutine.
MaxCallsPerWorker == 2

\* Largest token bucket capacity explored.
MaxCapacity == 5

\* Largest number of RegisterE and Get calls on one budget.Registry.
MaxRegistryOps == 3

\* Longest name given to RegisterE and Get.
MaxNameLen == 2

(* ------------------------ program constants ---------------------------- *)

\* Hedge.HedgeDelay values explored, in units of 10ms (10ms).
HedgeDelays == {1}

\* nextCheckIn values a registered trigger may return, in units of 10ms.
NextChecks == {0, 1}

\* Retry.InitialBackoff, Retry.BackoffMultiplier and Retry.MaxBackoff values
\* explored (durations in units of 5ms).
InitialBackoffs == {2}

Multipliers == {1, 2}

MaxBackoffs == {3, 8}

Jitters == {"none", "full"}

(* --------------------------- outcomes ---------------------------------- *)

OutcomeSuccess == "Success"
OutcomeRetryable == "Retryable"
OutcomeNonRetryable == "NonRetryable"
OutcomeAbort == "Abort"

Outcome(k, r) == [kind |-> k, reason |-> r]

NoOutcome == Outcome("", "")

NilErr == [src |-> "nil", idx |-> 0]

OpErr(i) == [src |-> "op", idx |-> i]

ReasonErr(r) == [src |-> r, idx |-> 0]

CtxErr == [src |-> "ctx", idx |-> 0]

\* groupResult[T]: the zero value of val is 0, the value of attempt i is i+1.
groupResult(v, e, o, h, i, p) ==
    [val |-> v, err |-> e, outcome |-> o, isHedge |-> h, idx |-> i, panicErr |-> p]

NoResult == groupResult(0, NilErr, NoOutcome, FALSE, 0, FALSE)

\* budget.Decision as returned by allowAttempt, with its second result.
Decisions ==
    { [allowed |-> TRUE, reason |-> "allowed", hasRelease |-> r] : r \in BOOLEAN }
    \cup { [allowed |-> FALSE, reason |-> "budget_denied", hasRelease |-> FALSE] }

\* What op and the classifier can make of one attempt.  An Abort of an
\* attempt that ran is a cancellation when its context is done and a
\* deadline (per-attempt timeout) otherwise.
OpOutcomes(groupDone) ==
    { Outcome(OutcomeSuccess, "success"),
      Outcome(OutcomeRetryable, "default_retry"),
      Outcome(OutcomeNonRetryable, "non_retryable"),
      Outcome(OutcomeAbort, IF groupDone THEN "context_canceled" ELSE "deadline_exceeded"),
      Outcome("Panic", "classifier") }

\* classifyWithRecovery: a classifier panic becomes Abort/panic_in_classifier
\* when panics are recovered.
classifyWithRecovery(recover, o) ==
    IF o.kind = "Panic"
    THEN IF recover THEN [outcome |-> Outcome(OutcomeAbort, "panic_in_classifier"),
                          panicErr |-> TRUE, panics |-> FALSE]
                    ELSE [outcome |-> NoOutcome, panicErr |-> FALSE, panics |-> TRUE]
    ELSE [outcome |-> o, panicErr |-> FALSE, panics |-> FALSE]

(* ---------------------- policy normalization --------------------------- *)

\* Durations are in microseconds.
Millisecond == 1000
Second == 1000 * Millisecond

maxRetryAttempts == 10
maxHedgesCeiling == 3
minBackoffFloor == 1 * Millisecond
minHedgeDelayFloor == 10 * Millisecond
maxBackoffCeiling == 30 * Second
minTimeoutFloor == 1 * Millisecond
minCircuitThreshold == 1
minCircuitCooldown == 100 * Millisecond

\* A float64: NaN, or a number of tenths.
Float(tenths) == [nan |-> FALSE, v |-> tenths]
NaN == [nan |-> TRUE, v |-> 0]

\* The comparisons of float64: every comparison with NaN is false.
FloatEq(a, b) == ~a.nan /\ ~b.nan /\ a.v = b.v
FloatLt(a, b) == ~a.nan /\ ~b.nan /\ a.v < b.v
FloatGt(a, b) == ~a.nan /\ ~b.nan /\ a.v > b.v

maxBackoffMultiplier == Float(100)

JitterNone == "none"
JitterFull == "full"
JitterEqual == "equal"

PolicySourceDefault == "default"

BudgetRef(name, cost) == [Name |-> name, Cost |-> cost]

NormalizationInfo(changed, fields) == [Changed |-> changed, ChangedFields |-> fields]

\* The zero value EffectivePolicy{}.
ZeroPolicy ==
    [Key |-> [Namespace |-> << >>, Name |-> << >>], ID |-> "",
     Retry |-> [MaxAttempts |-> 0, InitialBackoff |-> 0, MaxBackoff |-> 0,
                BackoffMultiplier |-> Float(0), Jitter |-> "",
                TimeoutPerAttempt |-> 0, OverallTimeout |-> 0,
                ClassifierName |-> "", Budget |-> BudgetRef("", 0)],
     Hedge |-> [Enabled |-> FALSE, MaxHedges |-> 0, HedgeDelay |-> 0,
                TriggerName |-> "", CancelOnFirstTerminal |-> FALSE,
                Budget |-> BudgetRef("", 0)],
     Circuit |-> [Enabled |-> FALSE, Threshold |-> 0, Cooldown |-> 0],
     Meta |-> [Source |-> "", Normalization |-> NormalizationInfo(FALSE, << >>)]]

DefaultPolicyFor(key) ==
    [ZeroPolicy EXCEPT
        !.Key = key,
        !.Retry.MaxAttempts = 3,
        !.Retry.InitialBackoff = 10 * Millisecond,
        !.Retry.MaxBackoff = 250 * Millisecond,
        !.Retry.BackoffMultiplier = Float(20),
        !.Retry.Jitter = JitterNone,
        !.Retry.Budget.Cost = 1,
        !.Hedge.Budget.Cost = 1,
        !.Meta.Source = PolicySourceDefault]

NoNormalizeError == [Field |-> "", Value |-> ""]

NormalizeError(field, value) == [Field |-> field, Value |-> value]

\* A markChanged that appends the field every time.
markChangedAppends(p, field) ==
    [p EXCEPT !.Meta.Normalization =
        NormalizationInfo(TRUE, Append(@.ChangedFields, field))]

\* markChanged: set Changed and add the field unless it is listed.
markChanged(p, field) ==
    [p EXCEPT !.Meta.Normalization =
        NormalizationInfo(TRUE,
            IF \E k \in 1..Len(@.ChangedFields) : @.ChangedFields[k] = field
            THEN @.ChangedFields
            ELSE Append(@.ChangedFields, field))]

normMaxAttempts(p) ==
    LET a == IF p.Retry.MaxAttempts = 0
             THEN markChanged([p EXCEPT !.Retry.MaxAttempts = 3], "retry.max_attempts")
             ELSE p
    IN IF a.Retry.MaxAttempts < 1
       THEN markChanged([a EXCEPT !.Retry.MaxAttempts = 1], "retry.max_attempts")
       ELSE IF a.Retry.MaxAttempts > maxRetryAttempts
       THEN markChanged([a EXCEPT !.Retry.MaxAttempts = maxRetryAttempts],
                        "retry.max_attempts")
       ELSE a

normInitialBackoff(p) ==
    LET a == IF p.Retry.InitialBackoff <= 0
             THEN markChanged([p EXCEPT !.Retry.InitialBackoff = 10 * Millisecond],
                              "retry.initial_backoff")
             ELSE p
    IN IF a.Retry.InitialBackoff < minBackoffFloor
       THEN markChanged([a EXCEPT !.Retry.InitialBackoff = minBackoffFloor],
                        "retry.initial_backoff")
       ELSE a

normMaxBackoff(p) ==
    LET a == IF p.Retry.MaxBackoff <= 0
             THEN markChanged([p EXCEPT !.Retry.MaxBackoff = 250 * Millisecond],
                              "retry.max_backoff")
             ELSE p
        b == IF a.Retry.MaxBackoff > maxBackoffCeiling
             THEN markChanged([a EXCEPT !.Retry.MaxBackoff = maxBackoffCeiling],
                              "retry.max_backoff")
             ELSE a
    IN IF b.Retry.MaxBackoff < b.Retry.InitialBackoff
       THEN markChanged([b EXCEPT !.Retry.MaxBackoff = b.Retry.InitialBackoff],
                        "retry.max_backoff")
       ELSE b

normBackoffMultiplier(p) ==
    LET a == IF FloatEq(p.Retry.BackoffMultiplier, Float(0))
             THEN markChanged([p EXCEPT !.Retry.BackoffMultiplier = Float(20)],
                              "retry.backoff_multiplier")
             ELSE p
    IN IF FloatLt(a.Retry.BackoffMultiplier, Float(10))
       THEN markChanged([a EXCEPT !.Retry.BackoffMultiplier = Float(10)],
                        "retry.backoff_multiplier")
       ELSE IF FloatGt(a.Retry.BackoffMultiplier, maxBackoffMultiplier)
       THEN markChanged([a EXCEPT !.Retry.BackoffMultiplier = maxBackoffMultiplier],
                        "retry.backoff_multiplier")
       ELSE a

\* A jitter switch whose default branch keeps the policy as it is.
normJitterLenient(p) ==
    IF p.Retry.Jitter = ""
    THEN [pol |-> markChanged([p EXCEPT !.Retry.Jitter = JitterNone], "retry.jitter"),
          err |-> NoNormalizeError]
    ELSE [pol |-> p, err |-> NoNormalizeError]

\* The switch on Retry.Jitter; its default branch returns the zero policy
\* and the error.
normJitter(p) ==
    IF p.Retry.Jitter = ""
    THEN [pol |-> markChanged([p EXCEPT !.Retry.Jitter = JitterNone], "retry.jitter"),
          err |-> NoNormalizeError]
    ELSE IF p.Retry.Jitter \in {JitterNone, JitterFull, JitterEqual}
    THEN [pol |-> p, err |-> NoNormalizeError]
    ELSE [pol |-> ZeroPolicy, err |-> NormalizeError("retry.jitter", p.Retry.Jitter)]

normTimeoutPerAttempt(p) ==
    LET a == IF p.Retry.TimeoutPerAttempt < 0
             THEN markChanged([p EXCEPT !.Retry.TimeoutPerAttempt = 0],
                              "retry.timeout_per_attempt")
             ELSE p
    IN IF a.Retry.TimeoutPerAttempt > 0 /\ a.Retry.TimeoutPerAttempt < minTimeoutFloor
       THEN markChanged([a EXCEPT !.Retry.TimeoutPerAttempt = minTimeoutFloor],
                        "retry.timeout_per_attempt")
       ELSE a

normOverallTimeout(p) ==
    LET a == IF p.Retry.OverallTimeout < 0
             THEN markChanged([p EXCEPT !.Retry.OverallTimeout = 0],
                              "retry.overall_timeout")
             ELSE p
    IN IF a.Retry.OverallTimeout > 0 /\ a.Retry.OverallTimeout < minTimeoutFloor
       THEN markChanged([a EXCEPT !.Retry.OverallTimeout = minTimeoutFloor],
                        "retry.overall_timeout")
       ELSE a

normRetryBudgetCost(p) ==
    LET a == IF p.Retry.Budget.Cost = 0
             THEN markChanged([p EXCEPT !.Retry.Budget.Cost = 1], "retry.budget.cost")
             ELSE p
    IN IF a.Retry.Budget.Cost < 1
       THEN markChanged([a EXCEPT !.Retry.Budget.Cost = 1], "retry.budget.cost")
       ELSE a

normHedgeBudgetCost(p) ==
    LET a == IF p.Hedge.Budget.Cost = 0
             THEN markChanged([p EXCEPT !.Hedge.Budget.Cost = 1], "hedge.budget.cost")
             ELSE p
    IN IF a.Hedge.Budget.Cost < 1
       THEN markChanged([a EXCEPT !.Hedge.Budget.Cost = 1], "hedge.budget.cost")
       ELSE a

normMaxHedges(p) ==
    LET a == IF p.Hedge.MaxHedges = 0
             THEN markChanged([p EXCEPT !.Hedge.MaxHedges = 2], "hedge.max_hedges")
             ELSE p
    IN IF a.Hedge.MaxHedges < 1
       THEN markChanged([a EXCEPT !.Hedge.MaxHedges = 1], "hedge.max_hedges")
       ELSE IF a.Hedge.MaxHedges > maxHedgesCeiling
       THEN markChanged([a EXCEPT !.Hedge.MaxHedges = maxHedgesCeiling],
                        "hedge.max_hedges")
       ELSE a

\* A hedge delay default and floor applied without markChanged.
normHedgeDelayUnmarked(p) ==
    IF p.Hedge.HedgeDelay <= 0
    THEN [p EXCEPT !.Hedge.HedgeDelay = 200 * Millisecond]
    ELSE IF p.Hedge.HedgeDelay < minHedgeDelayFloor
         THEN [p EXCEPT !.Hedge.HedgeDelay = minHedgeDelayFloor]
         ELSE p

normHedgeDelay(p) ==
    LET a == IF p.Hedge.HedgeDelay <= 0
             THEN markChanged([p EXCEPT !.Hedge.HedgeDelay = 200 * Millisecond],
                              "hedge.hedge_delay")
             ELSE p
    IN IF a.Hedge.HedgeDelay < minHedgeDelayFloor
       THEN markChanged([a EXCEPT !.Hedge.HedgeDelay = minHedgeDelayFloor],
                        "hedge.hedge_delay")
       ELSE a

normCircuitThreshold(p) ==
    LET a == IF p.Circuit.Threshold <= 0
             THEN markChanged([p EXCEPT !.Circuit.Threshold = 5], "circuit.threshold")
             ELSE p
    IN IF a.Circuit.Threshold < minCircuitThreshold
       THEN markChanged([a EXCEPT !.Circuit.Threshold = minCircuitThreshold],
                        "circuit.threshold")
       ELSE a

normCircuitCooldown(p) ==
    LET a == IF p.Circuit.Cooldown <= 0
             THEN markChanged([p EXCEPT !.Circuit.Cooldown = 10 * Second],
                              "circuit.cooldown")
             ELSE p
    IN IF a.Circuit.Cooldown < minCircuitCooldown
       THEN markChanged([a EXCEPT !.Circuit.Cooldown = minCircuitCooldown],
                        "circuit.cooldown")
       ELSE a

\* EffectivePolicy.Normalize: the normalized policy and the error.
Normalize(p) ==
    LET backoff == normBackoffMultiplier(normMaxBackoff(normInitialBackoff(
                       normMaxAttempts(p))))
        j == normJitter(backoff)
        costs == normHedgeBudgetCost(normRetryBudgetCost(normOverallTimeout(
                     normTimeoutPerAttempt(j.pol))))
        hedge == normHedgeDelay(normMaxHedges(costs))
    IN IF j.err # NoNormalizeError THEN j
       ELSE IF ~costs.Hedge.Enabled THEN [pol |-> costs, err |-> NoNormalizeError]
       ELSE IF ~hedge.Circuit.Enabled THEN [pol |-> hedge, err |-> NoNormalizeError]
       ELSE [pol |-> normCircuitCooldown(normCircuitThreshold(hedge)),
             err |-> NoNormalizeError]

(* ------------------------- policy.New ---------------------------------- *)

\* A string is a sequence of characters.
Chars == {" ", ".", "a"}

PolicyKey(ns, name) == [Namespace |-> ns, Name |-> name]

RECURSIVE TrimLeft(_)
TrimLeft(s) == IF s # << >> /\ Head(s) = " " THEN TrimLeft(Tail(s)) ELSE s

RECURSIVE TrimRight(_)
TrimRight(s) ==
    IF s # << >> /\ s[Len(s)] = " " THEN TrimRight(SubSeq(s, 1, Len(s) - 1)) ELSE s

\* strings.TrimSpace.
TrimSpace(s) == TrimRight(TrimLeft(s))

\* strings.IndexByte, counting from 1; 0 when the byte is absent.
IndexByte(s, c) ==
    IF \E k \in 1..Len(s) : s[k] = c
    THEN CHOOSE k \in 1..Len(s) : s[k] = c /\ \A l \in 1..(k - 1) : s[l] # c
    ELSE 0

ParseKey(str) ==
    LET s == TrimSpace(str)
        i == IndexByte(s, ".")
        ns == TrimSpace(SubSeq(s, 1, i - 1))
        name == TrimSpace(SubSeq(s, i + 1, Len(s)))
    IN IF s = << >> THEN PolicyKey(<< >>, << >>)
       ELSE IF i = 0 THEN PolicyKey(<< >>, s)
       ELSE IF name = << >> THEN PolicyKey(<< >>, s)
       ELSE PolicyKey(ns, name)

\* The options explored, each with the arguments it is given.
Options ==
    { [name |-> "MaxAttempts", n |-> n] : n \in {0, 20} }
    \cup { [name |-> "InitialBackoff", d |-> d] : d \in {31 * Second} }
    \cup { [name |-> "MaxBackoff", d |-> d] : d \in {1 * Millisecond} }
    \cup { [name |-> "BackoffMultiplier", m |-> m] : m \in {Float(5), NaN} }
    \cup { [name |-> "Jitter", j |-> j] : j \in {JitterFull, "bogus"} }
    \cup { [name |-> "PerAttemptTimeout", d |-> d] : d \in {500} }
    \cup { [name |-> "BudgetWithCost", b |-> "b", cost |-> c] : c \in {-1} }
    \cup { [name |-> "PolicyID", id |-> "id"] }
    \cup { [name |-> "EnableHedging"] }
    \cup { [name |-> "HedgeMaxAttempts", n |-> n] : n \in {0, 5} }
    \cup { [name |-> "HedgeDelay", d |-> d] : d \in {1 * Millisecond} }
    \cup { [name |-> "HedgeCancelOnTerminal", cancel |-> TRUE] }
    \cup { [name |-> "LowLatencyDefaults"] }

\* opt(&p) for one Option.
applyOption(p, o) ==
    CASE o.name = "MaxAttempts" -> [p EXCEPT !.Retry.MaxAttempts = o.n]
      [] o.name = "InitialBackoff" -> [p EXCEPT !.Retry.InitialBackoff = o.d]
      [] o.name = "MaxBackoff" -> [p EXCEPT !.Retry.MaxBackoff = o.d]
      [] o.name = "BackoffMultiplier" -> [p EXCEPT !.Retry.BackoffMultiplier = o.m]
      [] o.name = "Jitter" -> [p EXCEPT !.Retry.Jitter = o.j]
      [] o.name = "PerAttemptTimeout" -> [p EXCEPT !.Retry.TimeoutPerAttempt = o.d]
      [] o.name = "BudgetWithCost" -> [p EXCEPT !.Retry.Budget = BudgetRef(o.b, o.cost)]
      [] o.name = "PolicyID" -> [p EXCEPT !.ID = o.id]
      [] o.name = "EnableHedging" ->
            [p EXCEPT !.Hedge.Enabled = TRUE,
                      !.Hedge.MaxHedges = IF @ = 0 THEN 2 ELSE @,
                      !.Hedge.HedgeDelay = IF @ = 0 THEN 200 * Millisecond ELSE @]
      [] o.name = "HedgeMaxAttempts" ->
            [p EXCEPT !.Hedge.Enabled = TRUE, !.Hedge.MaxHedges = o.n]
      [] o.name = "HedgeDelay" ->
            [p EXCEPT !.Hedge.Enabled = TRUE, !.Hedge.HedgeDelay = o.d]
      [] o.name = "HedgeCancelOnTerminal" ->
            [p EXCEPT !.Hedge.CancelOnFirstTerminal = o.cancel]
      [] o.name = "LowLatencyDefaults" ->
            [p EXCEPT !.Retry.MaxAttempts = 2,
                      !.Retry.InitialBackoff = 10 * Millisecond,
                      !.Retry.MaxBackoff = 50 * Millisecond,
                      !.Retry.BackoffMultiplier = Float(20),
                      !.Retry.Jitter = JitterEqual,
                      !.Retry.TimeoutPerAttempt = 500 * Millisecond,
                      !.Retry.OverallTimeout = 1 * Second,
                      !.Hedge.Enabled = TRUE,
                      !.Hedge.MaxHedges = 2,
                      !.Hedge.HedgeDelay = 100 * Millisecond]

\* for _, opt := range opts { opt(&p) }.
RECURSIVE applyOptions(_, _)
applyOptions(p, opts) ==
    IF opts = << >> THEN p ELSE applyOptions(applyOption(p, Head(opts)), Tail(opts))

\* A NewFromKey that returns what Normalize returned, whatever its error.
NewFromKeyNoFallback(key, opts) ==
    Normalize(applyOptions(DefaultPolicyFor(key), opts)).pol

NewFromKey(key, opts) ==
    LET n == Normalize(applyOptions(DefaultPolicyFor(key), opts))
    IN IF n.err # NoNormalizeError THEN Normalize(DefaultPolicyFor(key)).pol
       ELSE n.pol

New(key, opts) == NewFromKey(ParseKey(key), opts)

(* --------------------- normalization inputs ---------------------------- *)

\* Longest key string and longest list of options given to policy.New.
MaxKeyLen == 3
MaxOptions == 2

RECURSIVE SeqsUpTo(_, _)
SeqsUpTo(S, n) ==
    IF n = 0 THEN {<< >>}
    ELSE LET shorter == SeqsUpTo(S, n - 1)
         IN shorter \cup { Append(s, x) : s \in shorter, x \in S }

\* The values explored for each field of an input policy.
MaxAttemptsValues == {-1, 0, 5, 11}
InitialBackoffValues == {0, 500, 5 * Millisecond, 31 * Second}
MaxBackoffValues == {0, 1 * Millisecond, 1 * Second, 31 * Second}
MultiplierValues == {Float(0), Float(5), Float(30), Float(110), NaN}
JitterValues == {"", JitterNone, JitterFull, JitterEqual, "bogus"}
TimeoutValues == {-1, 0, 500, 5 * Millisecond}
CostValues == {-1, 0, 2}
MaxHedgesValues == {-1, 0, 2, 4}
HedgeDelayValues == {0, 5 * Millisecond, 50 * Millisecond}
ThresholdValues == {0, 3}
CooldownValues == {0, 50 * Millisecond, 1 * Second}

\* Policies as a provider may hand them over: the zero policy or the
\* default one, hedging and the circuit breaker on or off, with or without
\* the trace of an earlier normalization.
Bases ==
    { [b EXCEPT !.Hedge.Enabled = h, !.Circuit.Enabled = c,
                !.Meta.Normalization = n] :
        b \in {ZeroPolicy, DefaultPolicyFor(PolicyKey(<< >>, <<"a">>))},
        h \in BOOLEAN, c \in BOOLEAN,
        n \in {NormalizationInfo(FALSE, << >>),
               NormalizationInfo(TRUE, <<"retry.max_backoff">>)} }

\* The input policies over a set of base policies: each varies the fields
\* of one part of Normalize over a base policy.
InputPolicies(BasePolicies) ==
    { [b EXCEPT !.Retry.InitialBackoff = i, !.Retry.MaxBackoff = m,
                !.Retry.Jitter = j] :
        b \in BasePolicies, i \in InitialBackoffValues, m \in MaxBackoffValues,
        j \in JitterValues }
    \cup
    { [b EXCEPT !.Retry.MaxAttempts = a, !.Retry.BackoffMultiplier = k,
                !.Retry.Jitter = j] :
        b \in BasePolicies, a \in MaxAttemptsValues, k \in MultiplierValues,
        j \in JitterValues }
    \cup
    { [b EXCEPT !.Retry.TimeoutPerAttempt = t, !.Retry.OverallTimeout = o,
                !.Retry.Budget.Cost = rc, !.Hedge.Budget.Cost = hc] :
        b \in BasePolicies, t \in TimeoutValues, o \in TimeoutValues,
        rc \in CostValues, hc \in CostValues }
    \cup
    { [b EXCEPT !.Hedge.MaxHedges = mh, !.Hedge.HedgeDelay = d,
                !.Circuit.Threshold = th, !.Circuit.Cooldown = cd] :
        b \in BasePolicies, mh \in MaxHedgesValues, d \in HedgeDelayValues,
        th \in ThresholdValues, cd \in CooldownValues }

NoNormalized == [pol |-> ZeroPolicy, err |-> NoNormalizeError]

\* No normalization is under study.
NoNorm == [pc |-> "none"]

(* ------------------------- package budget ------------------------------ *)

\* No budget is under study.
NoBudget == [pc |-> "none"]

\* Budget values handed to the registry: the nil interface, a typed-nil
\* pointer, a pointer to a budget and a budget held by value.
NilBudget == [kind |-> "nil", isNil |-> TRUE, id |-> 0]

BudgetValues ==
    { NilBudget,
      [kind |-> "ptr", isNil |-> TRUE, id |-> 0],
      [kind |-> "ptr", isNil |-> FALSE, id |-> 1],
      [kind |-> "struct", isNil |-> FALSE, id |-> 2] }

\* internal.IsTypedNil(x).
IsTypedNil(x) ==
    IF x.kind = "nil" THEN TRUE
    ELSE IF x.kind \in {"ptr", "map", "slice", "func", "interface", "chan"}
         THEN x.isNil
         ELSE FALSE

\* The names given to RegisterE and Get: spaces and letters.
RegistryNames == SeqsUpTo({" ", "a"}, MaxNameLen)

\* No entry under a name of the map r.m.
NoEntry == [kind |-> "absent", isNil |-> TRUE, id |-> 0]

\* No error.
NoRegistryError == "nil"

\* No call has been made on the registry yet.
NoRegistryCall ==
    [op |-> "none", name |-> << >>, b |-> NilBudget, ok |-> FALSE,
     err |-> NoRegistryError]

\* budget.NewRegistry() (isNil: a nil *Registry instead), with the number
\* of calls made on it, the last call and what it returned, and for every
\* trimmed name the budget of the last RegisterE that returned no error
\* (registered).
NewRegistry(isNil) ==
    [pc |-> "registry", isNil |-> isNil,
     m |-> [n \in RegistryNames |-> NoEntry],
     ops |-> 0, last |-> NoRegistryCall,
     registered |-> [n \in RegistryNames |-> NoEntry]]

\* A RegisterE that stores the budget under the name as given.
RegisterENoTrim(r, name, b) ==
    IF r.isNil THEN [m |-> r.m, err |-> "registry is nil"]
    ELSE IF TrimSpace(name) = << >>
         THEN [m |-> r.m, err |-> "budget name cannot be empty"]
         ELSE IF IsTypedNil(b)
              THEN [m |-> r.m, err |-> "budget cannot be nil"]
              ELSE [m |-> [r.m EXCEPT ![name] = b], err |-> NoRegistryError]

\* (*Registry).RegisterE(name, b): the map afterwards and the error.
RegisterE(r, name, b) ==
    IF r.isNil THEN [m |-> r.m, err |-> "registry is nil"]
    ELSE LET trimmed == TrimSpace(name)
         IN IF trimmed = << >>
            THEN [m |-> r.m, err |-> "budget name cannot be empty"]
            ELSE IF IsTypedNil(b)
                 THEN [m |-> r.m, err |-> "budget cannot be nil"]
                 ELSE [m |-> [r.m EXCEPT ![trimmed] = b], err |-> NoRegistryError]

\* (*Registry).Get(name): `b, ok := r.m[name]; return b, ok && b != nil`.
Get(r, name) ==
    IF r.isNil THEN [b |-> NilBudget, ok |-> FALSE]
    ELSE LET trimmed == TrimSpace(name)
         IN IF trimmed = << >> THEN [b |-> NilBudget, ok |-> FALSE]
            ELSE LET ok == r.m[trimmed] # NoEntry
                     b  == IF ok THEN r.m[trimmed] ELSE NilBudget
                 IN [b |-> b, ok |-> ok /\ b.kind # "nil"]

\* A call of RegisterE with some name and budget.
RegisterECall ==
    /\ budget.pc = "registry"
    /\ budget.ops < MaxRegistryOps
    /\ \E name \in RegistryNames, b \in BudgetValues :
         LET r == RegisterE(budget, name, b)
         IN budget' = [budget EXCEPT
                         !.m = r.m,
                         !.ops = budget.ops + 1,
                         !.last = [op |-> "RegisterE", name |-> name, b |-> b,
                                   ok |-> FALSE, err |-> r.err],
                         !.registered =
                             IF r.err = NoRegistryError
                             THEN [budget.registered EXCEPT ![TrimSpace(name)] = b]
                             ELSE budget.registered]
    /\ UNCHANGED <<norm, call, pol, missingTriggerMode, recoverPanics, ctxDone,
                   idleAtCancel, groupCancelled, activeAttempts, attemptsLaunched,
                   att, results, spawner, ticker, coord, terminal, crashed>>

\* A call of Get with some name.
GetCall ==
    /\ budget.pc = "registry"
    /\ budget.ops < MaxRegistryOps
    /\ \E name \in RegistryNames :
         LET g == Get(budget, name)
         IN budget' = [budget EXCEPT
                         !.ops = budget.ops + 1,
                         !.last = [op |-> "Get", name |-> name, b |-> g.b,
                                   ok |-> g.ok, err |-> NoRegistryError]]
    /\ UNCHANGED <<norm, call, pol, missingTriggerMode, recoverPanics, ctxDone,
                   idleAtCancel, groupCancelled, activeAttempts, attemptsLaunched,
                   att, results, spawner, ticker, coord, terminal, crashed>>

\* The goroutines that call AllowAttempt on one TokenBucketBudget, each
\* `attempts` times.
Workers == 1..MaxWorkers

\* NewTokenBucketBudget(capacity, refillRate): a full bucket guarded by a
\* mutex (mu is 0 when free, else the worker holding it), and the workers
\* of the concurrency test with their calls left (left), the token count
\* each read (local), its last Decision and its counts of allowed and
\* denied attempts.
NewTokenBucketBudget(capacity, refillRate, attemptsPerWorker) ==
    [pc |-> "bucket", capacity |-> capacity, refill |-> refillRate,
     attempts |-> attemptsPerWorker, tokens |-> capacity, mu |-> 0,
     w |-> [i \in Workers |->
              [pc |-> "call", left |-> attemptsPerWorker, local |-> 0,
               allowed |-> FALSE, allowedCount |-> 0, deniedCount |-> 0]]]

\* ref.Cost of the test's calls.
Cost == 1

\* A bucket whose AllowAttempt takes no lock.
muFreeUnlocked(b) == TRUE

\* b.mu.Lock() can proceed.
muFree(b) == b.mu = 0

\* The tokens after the refill of `elapsed` time units, capped at capacity.
refillTokens(b, elapsed) ==
    IF b.tokens + b.refill * elapsed > b.capacity THEN b.capacity
    ELSE b.tokens + b.refill * elapsed

\* AllowAttempt, entry: worker i takes the bucket's mutex.
AllowAttemptLock(i) ==
    /\ budget.pc = "bucket"
    /\ budget.w[i].pc = "call"
    /\ budget.w[i].left > 0
    /\ muFree(budget)
    /\ budget' = [budget EXCEPT !.mu = i, !.w[i].pc = "read"]
    /\ UNCHANGED <<norm, call, pol, missingTriggerMode, recoverPanics, ctxDone,
                   idleAtCancel, groupCancelled, activeAttempts, attemptsLaunched,
                   att, results, spawner, ticker, coord, terminal, crashed>>

\* AllowAttempt: refill for the time elapsed and read the token count.
AllowAttemptRead(i) ==
    /\ budget.pc = "bucket"
    /\ budget.w[i].pc = "read"
    /\ \E elapsed \in 0..MaxTime :
         budget' = [budget EXCEPT !.w[i].pc = "take",
                                  !.w[i].local = refillTokens(budget, elapsed)]
    /\ UNCHANGED <<norm, call, pol, missingTriggerMode, recoverPanics, ctxDone,
                   idleAtCancel, groupCancelled, activeAttempts, attemptsLaunched,
                   att, results, spawner, ticker, coord, terminal, crashed>>

\* AllowAttempt: consume the cost when the tokens cover it, else deny.
AllowAttemptTake(i) ==
    /\ budget.pc = "bucket"
    /\ budget.w[i].pc = "take"
    /\ LET ok == budget.w[i].local >= Cost
       IN budget' = [budget EXCEPT
                       !.tokens = IF ok THEN budget.w[i].local - Cost
                                  ELSE budget.w[i].local,
                       !.w[i].allowed = ok,
                       !.w[i].pc = "unlock"]
    /\ UNCHANGED <<norm, call, pol, missingTriggerMode, recoverPanics, ctxDone,
                   idleAtCancel, groupCancelled, activeAttempts, attemptsLaunched,
                   att, results, spawner, ticker, coord, terminal, crashed>>

\* AllowAttempt returns its Decision (the mutex is released) and the
\* worker counts it.
AllowAttemptReturn(i) ==
    /\ budget.pc = "bucket"
    /\ budget.w[i].pc = "unlock"
    /\ budget' = [budget EXCEPT
                    !.mu = IF budget.mu = i THEN 0 ELSE budget.mu,
                    !.w[i].pc = "call",
                    !.w[i].left = budget.w[i].left - 1,
                    !.w[i].allowedCount =
                        budget.w[i].allowedCount + (IF budget.w[i].allowed THEN 1 ELSE 0),
                    !.w[i].deniedCount =
                        budget.w[i].deniedCount + (IF budget.w[i].allowed THEN 0 ELSE 1)]
    /\ UNCHANGED <<norm, call, pol, missingTriggerMode, recoverPanics, ctxDone,
                   idleAtCancel, groupCancelled, activeAttempts, attemptsLaunched,
                   att, results, spawner, ticker, coord, terminal, crashed>>

(* ----------------------------- state ----------------------------------- *)

\* The hedge indexes of a group go up to maxHedges.
MaxIdx == IF MaxHedgesBound > MaxHedgesRunning THEN MaxHedgesBound ELSE MaxHedgesRunning

Idx == 0..MaxIdx

\* One attempt goroutine; attempt and backoff are the Attempt and Backoff
\* fields it gives to the budget, the AttemptInfo and its AttemptRecord;
\* succeededFirst notes that the op of this hedge returned Success while
\* the primary was inside op.
NoAttempt ==
    [pc |-> "none", isHedge |-> FALSE, allowed |-> FALSE, hasRelease |-> FALSE,
     res |-> NoResult, ran |-> FALSE, panicking |-> FALSE, released |-> 0,
     opCalls |-> 0, recorded |-> 0, hedgeSpawn |-> 0, attempt |-> 0,
     backoff |-> 0, succeededFirst |-> FALSE]

\* groupCtx is derived from ctx: done when ctx is done or cancelGroup ran.
groupCtxDone == ctxDone \/ groupCancelled

\* An attempt context derived from the caller's ctx.
attemptCtxFromCaller(i) == ctxDone

\* The context of attempt i is done: attemptCtx is groupCtx or a
\* WithTimeout child of it (whose deadline shows as the op's
\* deadline_exceeded outcome).
attemptCtxDone(i) == groupCtxDone

\* maxHedges as computed at the top of doRetryGroup.
maxHedges == IF pol.hedgeEnabled THEN pol.maxHedges ELSE 0

\* A result channel with room for the hedges only.
resultsCapHedgesOnly == maxHedges

\* The capacity of the results channel: make(chan groupResult, 1+maxHedges).
resultsCap == 1 + maxHedges

\* Milliseconds in one unit of the model's time.
TimeUnit == 10

\* The interval of the spawner's ticker at its creation, in milliseconds:
\* time.NewTicker(25 * time.Millisecond).
defaultCheckInterval == 25

\* The spawner's ticker before time.NewTicker.
NoTicker == [running |-> FALSE, pending |-> FALSE, period |-> 0]

\* time.NewTicker(d): a tick every `period` milliseconds, none pending.
NewTicker(d) == [running |-> TRUE, pending |-> FALSE, period |-> d]

\* The deferred ticker.Stop(): the ticker fires no more and has no interval.
tickerStop(t) == [t EXCEPT !.running = FALSE, !.period = 0]

HedgePolicies ==
    { [hedgeEnabled |-> en, maxHedges |-> mh, hedgeDelay |-> d, trigger |-> tr,
       cancelOnFirstTerminal |-> c] :
        en \in BOOLEAN, mh \in 0..MaxHedgesBound, d \in HedgeDelays,
        tr \in {"fixed", "registered"}, c \in BOOLEAN }

\* ExecutorOptions.MissingTriggerMode.
FailureFallback == "fallback"
FailureDeny == "deny"

RetryPolicies ==
    [maxAttempts : 1..MaxAttemptsBound, initialBackoff : InitialBackoffs,
     multiplier : Multipliers, maxBackoff : MaxBackoffs, jitter : Jitters]

\* policy.EffectivePolicy: the Hedge fields and the Retry fields.
Policies ==
    { [hedgeEnabled |-> h.hedgeEnabled, maxHedges |-> h.maxHedges,
       hedgeDelay |-> h.hedgeDelay, trigger |-> h.trigger,
       cancelOnFirstTerminal |-> h.cancelOnFirstTerminal,
       maxAttempts |-> r.maxAttempts, initialBackoff |-> r.initialBackoff,
       multiplier |-> r.multiplier, maxBackoff |-> r.maxBackoff,
       jitter |-> r.jitter] : h \in HedgePolicies, r \in RetryPolicies }

\* A normalized policy: MaxHedges is at least 1 when hedging is enabled; the
\* hedge fields of a policy without hedging are not read.
ValidPolicy(p) ==
    IF p.hedgeEnabled THEN p.maxHedges >= 1
    ELSE p.maxHedges = 0 /\ p.hedgeDelay = 1 /\ p.trigger = "fixed" /\ ~p.cancelOnFirstTerminal

\* A policy of one retry group without backoff: the call is its one group.
SingleGroup(p) ==
    /\ p.maxAttempts = 1 /\ p.initialBackoff = 2 /\ p.multiplier = 1
    /\ p.maxBackoff = 3 /\ p.jitter = "none"

\* A spawner that launches the hedge before it increments hedgesLaunched.
launchBeforeIncrement(a, idx, isHedge) ==
    [a EXCEPT ![IF isHedge THEN idx - 1 ELSE idx] =
        [NoAttempt EXCEPT !.pc = "budget", !.isHedge = isHedge]]

\* launch(idx, isHedge): count the attempt and start its goroutine.
launch(a, idx, isHedge) ==
    [a EXCEPT ![idx] = [NoAttempt EXCEPT !.pc = "budget", !.isHedge = isHedge]]

\* The call around the retry groups: the index of the running group
\* (retryIdx), the backoff slept before it (lastBackoff), the error of the
\* last attempt that ran, the numbers of op invocations and of attempt
\* records of the finished groups, the outcome of the synthetic record of a
\* circuit denial, the stopped_due_to_budget attribute and the error
\* returned to the caller.
NewCall(pc) ==
    [pc |-> pc, retryIdx |-> 0, lastBackoff |-> 0, lastErr |-> NilErr,
     opCalls |-> 0, records |-> 0, synthetic |-> NoOutcome,
     stoppedDueToBudget |-> FALSE, err |-> NilErr]

\* State on entry of doRetryGroup, after launch(0, false) and `go spawner`,
\* for the one group of a call with MaxAttempts=1.
Init ==
    /\ budget = NoBudget
    /\ norm = NoNorm
    /\ call = NewCall("group")
    /\ pol \in {p \in Policies : ValidPolicy(p) /\ SingleGroup(p)}
    /\ missingTriggerMode = FailureFallback
    /\ recoverPanics \in BOOLEAN
    /\ ctxDone = FALSE
    /\ idleAtCancel = FALSE
    /\ groupCancelled = FALSE
    /\ activeAttempts = 1
    /\ attemptsLaunched = 1
    /\ att = launch([i \in Idx |-> NoAttempt], 0, FALSE)
    /\ results = << >>
    /\ spawner = [pc |-> "start", hedgesLaunched |-> 0, elapsed |-> 0]
    /\ ticker = NoTicker
    /\ coord = [pc |-> "select", lastRel |-> NoResult, failures |-> 0,
                ret |-> [val |-> 0, err |-> NilErr, outcome |-> NoOutcome, ok |-> FALSE]]
    /\ terminal = "none"
    /\ crashed = FALSE

(* ---------------------- attempt goroutine ------------------------------ *)

\* A record whose Backoff is cleared for every attempt.
recBackoffCleared(a) == 0

\* rec.Backoff: lastBackoff, and 0 for a hedge.
recBackoff(a) == IF a.isHedge THEN 0 ELSE call.lastBackoff

\* A denial branch that records the denial and falls through to op.
deniedAttemptRunsOp(a, d, i) ==
    [a EXCEPT !.pc = "op", !.allowed = FALSE, !.hasRelease = d.hasRelease,
              !.attempt = call.retryIdx,
              !.backoff = recBackoff(a),
              !.recorded = @ + 1, !.opCalls = @ + 1]

\* The branch `if !allowed`: the denied AttemptRecord is recorded and the
\* synthetic Abort result is built; op is not invoked.
deniedAttempt(a, d, i) ==
    [a EXCEPT !.pc = "send", !.allowed = FALSE, !.hasRelease = d.hasRelease,
              !.attempt = call.retryIdx,
              !.backoff = recBackoff(a),
              !.recorded = @ + 1,
              !.res = groupResult(0, ReasonErr(d.reason),
                          Outcome(OutcomeAbort, d.reason), a.isHedge, i, FALSE)]

\* An observer call made for every attempt that passes its budget check.
hedgeSpawnCallsForAll(a) == a.hedgeSpawn + 1

\* `if isHedge { e.observer.OnHedgeSpawn(...) }`: the number of OnHedgeSpawn
\* calls made for the attempt, once it has passed its budget check.
hedgeSpawnCalls(a) == IF a.isHedge THEN a.hedgeSpawn + 1 ELSE a.hedgeSpawn

\* e.allowAttempt and what follows it: a denied attempt records its
\* synthetic Abort with recordAttempt and goes on to send it; an allowed one
\* fires OnHedgeSpawn (hedges only) and invokes op.
AttemptBudget(i) ==
    /\ ~crashed
    /\ att[i].pc = "budget"
    /\ \E d \in Decisions :
        att' = [att EXCEPT ![i] =
            IF ~d.allowed
            THEN deniedAttempt(att[i], d, i)
            ELSE [@ EXCEPT !.pc = "op", !.allowed = TRUE,
                           !.hasRelease = d.hasRelease,
                           !.attempt = call.retryIdx,
                           !.hedgeSpawn = hedgeSpawnCalls(att[i]),
                           !.opCalls = @ + 1]]
    /\ UNCHANGED <<budget, norm, call, pol, missingTriggerMode, recoverPanics, ctxDone, idleAtCancel, groupCancelled,
                   activeAttempts, attemptsLaunched, results, spawner, ticker,
                   coord, terminal, crashed>>

\* op returns, the attempt is classified and recordAttempt passes its record
\* to the timeline and OnAttempt.  A classifier panic that is not recovered
\* unwinds the goroutine through its deferred calls instead.
AttemptOpReturn(i) ==
    /\ ~crashed
    /\ att[i].pc = "op"
    /\ \E o \in OpOutcomes(groupCtxDone) :
        LET c == classifyWithRecovery(recoverPanics, o)
            err == IF o.kind \in {OutcomeSuccess, "Panic"} THEN NilErr ELSE OpErr(i)
        IN att' = [att EXCEPT ![i] =
            IF c.panics
            THEN [@ EXCEPT !.pc = "release", !.panicking = TRUE]
            ELSE [@ EXCEPT !.pc = "send", !.ran = TRUE, !.recorded = @ + 1,
                           !.succeededFirst = /\ i # 0 /\ att[0].pc = "op"
                                              /\ c.outcome.kind = OutcomeSuccess,
                           !.backoff = recBackoff(att[i]),
                           !.res = groupResult(i + 1, err, c.outcome,
                                       att[i].isHedge, i, c.panicErr)]]
    /\ UNCHANGED <<budget, norm, call, pol, missingTriggerMode, recoverPanics, ctxDone, idleAtCancel, groupCancelled,
                   activeAttempts, attemptsLaunched, results, spawner, ticker,
                   coord, terminal, crashed>>

\* results <- res on the channel of capacity 1+maxHedges.
AttemptSend(i) ==
    /\ ~crashed
    /\ att[i].pc = "send"
    /\ Len(results) < resultsCap
    /\ results' = Append(results, att[i].res)
    /\ att' = [att EXCEPT ![i] = [@ EXCEPT !.pc = IF att[i].allowed THEN "release" ELSE "dec"]]
    /\ UNCHANGED <<budget, norm, call, pol, missingTriggerMode, recoverPanics, ctxDone, idleAtCancel, groupCancelled,
                   activeAttempts, attemptsLaunched, spawner, ticker, coord,
                   terminal, crashed>>

\* A release closure that forgets the handle of an attempt that ended by
\* cancellation.
releaseDeferNotOnCancel(a) ==
    [a EXCEPT !.pc = "dec",
              !.released = IF a.hasRelease /\ a.res.outcome.reason # "context_canceled"
                           THEN @ + 1 ELSE @]

\* A release closure that drops the handle without calling it.
releaseDeferDropped(a) == [a EXCEPT !.pc = "dec"]

\* The deferred release closure of an allowed attempt (after cancelAttempt).
releaseDefer(a) == [a EXCEPT !.pc = "dec", !.released = IF a.hasRelease THEN @ + 1 ELSE @]

AttemptRelease(i) ==
    /\ ~crashed
    /\ att[i].pc = "release"
    /\ att' = [att EXCEPT ![i] = releaseDefer(att[i])]
    /\ UNCHANGED <<budget, norm, call, pol, missingTriggerMode, recoverPanics, ctxDone, idleAtCancel, groupCancelled,
                   activeAttempts, attemptsLaunched, results, spawner, ticker,
                   coord, terminal, crashed>>

\* defer activeAttempts.Add(-1); an unrecovered panic then ends the process.
AttemptExit(i) ==
    /\ ~crashed
    /\ att[i].pc = "dec"
    /\ activeAttempts' = activeAttempts - 1
    /\ att' = [att EXCEPT ![i] = [@ EXCEPT !.pc = "done"]]
    /\ crashed' = att[i].panicking
    /\ UNCHANGED <<budget, norm, call, pol, missingTriggerMode, recoverPanics, ctxDone, idleAtCancel, groupCancelled,
                   attemptsLaunched, results, spawner, ticker, coord,
                   terminal>>

(* ------------------------- hedge spawner ------------------------------- *)

\* `if nextCheck > 0 { ticker.Reset(nextCheck) }`: the next tick comes
\* nextCheck after the evaluation, and every later one at that interval.
tickerReset(t, nextCheck) ==
    IF nextCheck > 0 THEN [t EXCEPT !.period = nextCheck * TimeUnit] ELSE t

\* hedge.FixedDelayTrigger.ShouldSpawnHedge.
FixedDelayShouldSpawnHedge(delay, state) ==
    IF state.elapsed < delay THEN [should |-> FALSE, nextCheck |-> delay - state.elapsed]
    ELSE IF state.attemptsLaunched > 1 THEN [should |-> FALSE, nextCheck |-> 0]
    ELSE [should |-> TRUE, nextCheck |-> 0]

\* The trigger the spawner resolves: the one found in the registry under
\* Hedge.TriggerName, and FixedDelayTrigger{HedgeDelay} when no name is set
\* or the name is not found (whatever MissingTriggerMode says).
resolveTrigger ==
    IF pol.trigger \in {"registered", "panics"} THEN pol.trigger ELSE "fixed"

\* The answers of the trigger in use: the fixed-delay trigger, or a trigger
\* found in the registry, which may answer anything, or panic.
ShouldSpawnHedge(state) ==
    IF resolveTrigger = "registered"
    THEN { [should |-> s, nextCheck |-> n, panics |-> FALSE] :
               s \in BOOLEAN, n \in NextChecks }
    ELSE IF resolveTrigger = "panics"
    THEN { [should |-> FALSE, nextCheck |-> 0, panics |-> TRUE] }
    ELSE { [should |-> r.should, nextCheck |-> r.nextCheck, panics |-> FALSE] :
               r \in { FixedDelayShouldSpawnHedge(pol.hedgeDelay, state) } }

\* Entry of the spawner goroutine: return when hedging is off, else pick
\* the trigger and start the ticker.
SpawnerStart ==
    /\ ~crashed
    /\ spawner.pc = "start"
    /\ IF ~pol.hedgeEnabled
       THEN /\ spawner' = [spawner EXCEPT !.pc = "exited"]
            /\ UNCHANGED ticker
       ELSE /\ spawner' = [spawner EXCEPT !.pc = "select"]
            /\ ticker' = NewTicker(defaultCheckInterval)
    /\ UNCHANGED <<budget, norm, call, pol, missingTriggerMode, recoverPanics, ctxDone, idleAtCancel, groupCancelled,
                   activeAttempts, attemptsLaunched, att, results, coord,
                   terminal, crashed>>

\* case <-groupCtx.Done(): return (with the deferred ticker.Stop()).
SpawnerGroupDone ==
    /\ ~crashed
    /\ spawner.pc = "select"
    /\ groupCtxDone
    /\ spawner' = [spawner EXCEPT !.pc = "exited"]
    /\ ticker' = tickerStop(ticker)
    /\ UNCHANGED <<budget, norm, call, pol, missingTriggerMode, recoverPanics, ctxDone, idleAtCancel, groupCancelled,
                   activeAttempts, attemptsLaunched, att, results, coord,
                   terminal, crashed>>

\* case <-ticker.C: with the check of hedgesLaunched against maxHedges and
\* the HedgeState built from the elapsed time read from the injected
\* e.clock.
SpawnerTick ==
    /\ ~crashed
    /\ spawner.pc = "select"
    /\ ticker.pending
    /\ IF spawner.hedgesLaunched >= maxHedges
       THEN /\ spawner' = [spawner EXCEPT !.pc = "exited"]
            /\ ticker' = tickerStop([ticker EXCEPT !.pending = FALSE])
       ELSE /\ \E el \in 0..MaxTime :
                 spawner' = [spawner EXCEPT !.pc = "eval", !.elapsed = el]
            /\ ticker' = [ticker EXCEPT !.pending = FALSE]
    /\ UNCHANGED <<budget, norm, call, pol, missingTriggerMode, recoverPanics, ctxDone, idleAtCancel, groupCancelled,
                   activeAttempts, attemptsLaunched, att, results, coord,
                   terminal, crashed>>

\* The trigger is asked and a hedge is launched when it says so; a panic
\* of the trigger unwinds the spawner goroutine, which has no recover, and
\* ends the process.  A positive nextCheck becomes the ticker's interval.
SpawnerEval ==
    /\ ~crashed
    /\ spawner.pc = "eval"
    /\ LET state == [attemptsLaunched |-> 1 + spawner.hedgesLaunched,
                     maxHedges |-> maxHedges, elapsed |-> spawner.elapsed]
       IN \E r \in ShouldSpawnHedge(state) :
            IF r.panics
            THEN /\ crashed' = TRUE
                 /\ spawner' = [spawner EXCEPT !.pc = "exited", !.elapsed = 0]
                 /\ ticker' = tickerStop(ticker)
                 /\ UNCHANGED <<activeAttempts, attemptsLaunched, att>>
            ELSE /\ IF r.should
                    THEN /\ spawner' = [pc |-> "select",
                                        hedgesLaunched |-> spawner.hedgesLaunched + 1,
                                        elapsed |-> 0]
                         /\ activeAttempts' = activeAttempts + 1
                         /\ attemptsLaunched' = attemptsLaunched + 1
                         /\ att' = launch(att, spawner.hedgesLaunched + 1, TRUE)
                    ELSE /\ spawner' = [spawner EXCEPT !.pc = "select", !.elapsed = 0]
                         /\ UNCHANGED <<activeAttempts, attemptsLaunched, att>>
                 /\ ticker' = tickerReset(ticker, r.nextCheck)
                 /\ UNCHANGED crashed
    /\ UNCHANGED <<budget, norm, call, pol, missingTriggerMode, recoverPanics, ctxDone,
                   idleAtCancel, groupCancelled, results, coord, terminal>>

\* The running ticker fires: a tick goes into its channel (of capacity one).
TickerFire ==
    /\ ~crashed
    /\ ticker.running
    /\ ~ticker.pending
    /\ ticker' = [ticker EXCEPT !.pending = TRUE]
    /\ UNCHANGED <<budget, norm, call, pol, missingTriggerMode, recoverPanics, ctxDone, idleAtCancel, groupCancelled,
                   activeAttempts, attemptsLaunched, att, results, spawner,
                   coord, terminal, crashed>>

(* -------------------------- coordinator -------------------------------- *)

\* return v, e, o, ok from doRetryGroup, with the deferred cancelGroup().
Return(c, v, e, o, ok) ==
    [c EXCEPT !.pc = "returned",
              !.ret = [val |-> v, err |-> e, outcome |-> o, ok |-> ok]]

\* A fail-fast check that looks for NonRetryable only.
FailFastNonRetryableOnly(res) ==
    /\ pol.cancelOnFirstTerminal
    /\ res.outcome.kind = OutcomeNonRetryable

\* The fail-fast check on a received failure.
FailFast(res) ==
    /\ pol.cancelOnFirstTerminal
    /\ res.outcome.kind \in {OutcomeNonRetryable, OutcomeAbort}

\* case res := <-results: up to the load of activeAttempts.
CoordRecv ==
    /\ ~crashed
    /\ coord.pc = "select"
    /\ results # << >>
    /\ LET res == Head(results)
           failed == [coord EXCEPT !.lastRel = res, !.failures = @ + 1]
       IN /\ results' = Tail(results)
          /\ IF res.outcome.kind = OutcomeSuccess
             THEN /\ coord' = Return(coord, res.val, NilErr, res.outcome, TRUE)
                  /\ groupCancelled' = TRUE
             ELSE IF FailFast(res)
             THEN /\ coord' = Return(failed, res.val, res.err, res.outcome, FALSE)
                  /\ groupCancelled' = TRUE
             ELSE /\ coord' = [failed EXCEPT !.pc = "load"]
                  /\ UNCHANGED groupCancelled
    /\ UNCHANGED <<budget, norm, call, pol, missingTriggerMode, recoverPanics, ctxDone, idleAtCancel, activeAttempts,
                   attemptsLaunched, att, spawner, ticker, terminal, crashed>>

\* active := activeAttempts.Load(); return the last failure when it is 0.
CoordLoad ==
    /\ ~crashed
    /\ coord.pc = "load"
    /\ IF activeAttempts = 0
       THEN /\ coord' = Return(coord, coord.lastRel.val, coord.lastRel.err,
                               coord.lastRel.outcome, FALSE)
            /\ groupCancelled' = TRUE
       ELSE /\ coord' = [coord EXCEPT !.pc = "select"]
            /\ UNCHANGED groupCancelled
    /\ UNCHANGED <<budget, norm, call, pol, missingTriggerMode, recoverPanics, ctxDone, idleAtCancel, activeAttempts,
                   attemptsLaunched, att, results, spawner, ticker, terminal,
                   crashed>>

\* case <-ctx.Done(): the caller's context error, as an Abort.
CoordCtxDone ==
    /\ ~crashed
    /\ coord.pc = "select"
    /\ ctxDone
    /\ coord' = Return(coord, 0, CtxErr, Outcome(OutcomeAbort, "context_canceled"), FALSE)
    /\ groupCancelled' = TRUE
    /\ UNCHANGED <<budget, norm, call, pol, missingTriggerMode, recoverPanics, ctxDone, idleAtCancel, activeAttempts,
                   attemptsLaunched, att, results, spawner, ticker, terminal,
                   crashed>>

(* ------------------------ caller and environment ----------------------- *)

\* The caller cancels ctx (or its deadline passes) while the group runs;
\* idleAtCancel notes that no result was in the channel at that instant.
CancelCtx ==
    /\ ~crashed
    /\ ~ctxDone
    /\ call.pc = "group"
    /\ coord.pc # "returned"
    /\ ctxDone' = TRUE
    /\ idleAtCancel' = (results = << >>)
    /\ UNCHANGED <<budget, norm, call, pol, missingTriggerMode, recoverPanics, groupCancelled, activeAttempts,
                   attemptsLaunched, att, results, spawner, ticker, coord,
                   terminal, crashed>>

(* ------------------------------ call ----------------------------------- *)

CircuitOpenError == [src |-> "circuit_open", idx |-> 0]

RECURSIVE Pow(_, _)
Pow(m, k) == IF k = 0 THEN 1 ELSE m * Pow(m, k - 1)

Min(a, b) == IF a < b THEN a ELSE b

\* The backoff of the policy after group i: InitialBackoff * Multiplier^i,
\* capped at MaxBackoff.
policyBackoff(p, i) == Min(p.initialBackoff * Pow(p.multiplier, i), p.maxBackoff)

\* The durations the jitter may make of a backoff.
jittered(p, d) == IF p.jitter = "none" THEN {d} ELSE 0..d

RECURSIVE SumTo(_, _)
SumTo(f, n) == IF n < 0 THEN 0 ELSE f[n] + SumTo(f, n - 1)

\* op invocations and attempt records of the call so far.
opInvocations == call.opCalls + SumTo([i \in Idx |-> att[i].opCalls], MaxIdx)

attemptRecords == call.records + SumTo([i \in Idx |-> att[i].recorded], MaxIdx)

\* The group returned the synthetic result of a denied attempt.
groupDenied == /\ coord.ret.outcome.kind = OutcomeAbort
               /\ coord.ret.outcome.reason = "budget_denied"

\* The retry loop goes on to a further group.
retryAgain ==
    /\ coord.ret.outcome.kind = OutcomeRetryable
    /\ call.retryIdx + 1 < pol.maxAttempts

\* Entry of doRetryGroup: the group context, the counters, launch(0, false)
\* and the spawner goroutine.
EnterGroup ==
    /\ groupCancelled' = FALSE
    /\ activeAttempts' = 1
    /\ attemptsLaunched' = 1
    /\ att' = launch([i \in Idx |-> NoAttempt], 0, FALSE)
    /\ results' = << >>
    /\ spawner' = [pc |-> "start", hedgesLaunched |-> 0, elapsed |-> 0]
    /\ ticker' = NoTicker
    /\ coord' = [pc |-> "select", lastRel |-> NoResult, failures |-> 0,
                 ret |-> [val |-> 0, err |-> NilErr, outcome |-> NoOutcome, ok |-> FALSE]]

\* A circuit check that records the denial and starts group 0 all the same.
CircuitCheckGoesOn ==
    /\ ~crashed
    /\ call.pc = "circuit"
    /\ \E allowed \in BOOLEAN :
        call' = [call EXCEPT !.pc = "group",
                             !.records = IF allowed THEN @ ELSE @ + 1,
                             !.synthetic = IF allowed THEN @
                                           ELSE Outcome(OutcomeAbort, "circuit_open")]
    /\ EnterGroup
    /\ UNCHANGED <<budget, norm, pol, missingTriggerMode, recoverPanics, ctxDone, idleAtCancel, terminal, crashed>>

\* The circuit breaker is consulted before the first group: a denial ends
\* the call with a synthetic Abort/circuit_open record, OnFailure and a
\* CircuitOpenError; otherwise group 0 starts.
CircuitCheck ==
    /\ ~crashed
    /\ call.pc = "circuit"
    /\ \E allowed \in BOOLEAN :
        IF allowed
        THEN /\ call' = [call EXCEPT !.pc = "group"]
             /\ EnterGroup
             /\ UNCHANGED terminal
        ELSE /\ call' = [call EXCEPT !.pc = "done", !.records = @ + 1,
                                     !.synthetic = Outcome(OutcomeAbort, "circuit_open"),
                                     !.err = CircuitOpenError]
             /\ terminal' = "failure"
             /\ UNCHANGED <<groupCancelled, activeAttempts, attemptsLaunched,
                            att, results, spawner, ticker, coord>>
    /\ UNCHANGED <<budget, norm, pol, missingTriggerMode, recoverPanics, ctxDone, idleAtCancel, crashed>>

\* The group ended Retryable and attempts remain: sleep the backoff and
\* enter the next group.  The goroutines of the group that ended have run
\* their deferred calls by the end of the sleep.
NextGroup ==
    /\ ~crashed
    /\ call.pc = "group"
    /\ coord.pc = "returned"
    /\ retryAgain
    /\ \A i \in Idx : att[i].pc \in {"none", "done"}
    /\ spawner.pc = "exited"
    /\ \E d \in jittered(pol, policyBackoff(pol, call.retryIdx)) :
        call' = [call EXCEPT !.retryIdx = @ + 1, !.lastBackoff = d,
                             !.lastErr = coord.ret.err,
                             !.opCalls = opInvocations,
                             !.records = attemptRecords]
    /\ EnterGroup
    /\ UNCHANGED <<budget, norm, pol, missingTriggerMode, recoverPanics, ctxDone, idleAtCancel, terminal, crashed>>

\* The call ends with this group: OnSuccess or OnFailure, once.  A retry
\* denied by its budget after the first group ends the call with the error
\* of the last attempt that ran and stopped_due_to_budget.
Finalize ==
    /\ ~crashed
    /\ call.pc = "group"
    /\ coord.pc = "returned"
    /\ terminal = "none"
    /\ ~retryAgain
    /\ terminal' = IF coord.ret.ok THEN "success" ELSE "failure"
    /\ LET stop == groupDenied /\ call.retryIdx > 0
       IN call' = [call EXCEPT !.pc = "done",
                               !.stoppedDueToBudget = stop,
                               !.err = IF stop THEN call.lastErr ELSE coord.ret.err]
    /\ UNCHANGED <<budget, norm, pol, missingTriggerMode, recoverPanics, ctxDone, idleAtCancel, groupCancelled,
                   activeAttempts, attemptsLaunched, att, results, spawner,
                   ticker, coord, crashed>>

Next ==
    \/ \E i \in Idx : AttemptBudget(i)
    \/ \E i \in Idx : AttemptOpReturn(i)
    \/ \E i \in Idx : AttemptSend(i)
    \/ \E i \in Idx : AttemptRelease(i)
    \/ \E i \in Idx : AttemptExit(i)
    \/ SpawnerStart
    \/ SpawnerGroupDone
    \/ SpawnerTick
    \/ SpawnerEval
    \/ TickerFire
    \/ CoordRecv
    \/ CoordLoad
    \/ CoordCtxDone
    \/ CancelCtx
    \/ Finalize

Spec == Init /\ [][Next]_vars

\* A whole call without hedging: the circuit check, then up to MaxAttempts
\* retry groups of one attempt each.
InitCall ==
    /\ budget = NoBudget
    /\ norm = NoNorm
    /\ call = NewCall("circuit")
    /\ pol \in {p \in Policies : ValidPolicy(p) /\ ~p.hedgeEnabled}
    /\ missingTriggerMode = FailureFallback
    /\ recoverPanics \in BOOLEAN
    /\ ctxDone = FALSE
    /\ idleAtCancel = FALSE
    /\ groupCancelled = FALSE
    /\ activeAttempts = 0
    /\ attemptsLaunched = 0
    /\ att = [i \in Idx |-> NoAttempt]
    /\ results = << >>
    /\ spawner = [pc |-> "none", hedgesLaunched |-> 0, elapsed |-> 0]
    /\ ticker = NoTicker
    /\ coord = [pc |-> "none", lastRel |-> NoResult, failures |-> 0,
                ret |-> [val |-> 0, err |-> NilErr, outcome |-> NoOutcome, ok |-> FALSE]]
    /\ terminal = "none"
    /\ crashed = FALSE

\* The second retry group of a call with MaxAttempts=2, hedging as the
\* policy says: the first group ended Retryable with the error of its
\* primary after one op invocation and one record.
InitRetry ==
    /\ budget = NoBudget
    /\ norm = NoNorm
    /\ call = [NewCall("group") EXCEPT !.retryIdx = 1, !.lastBackoff = 2,
                                       !.lastErr = OpErr(0), !.opCalls = 1,
                                       !.records = 1]
    /\ pol \in {p \in Policies :
                  /\ ValidPolicy(p) /\ p.hedgeEnabled
                  /\ SingleGroup([p EXCEPT !.maxAttempts = 1])
                  /\ p.maxAttempts = 2}
    /\ missingTriggerMode = FailureFallback
    /\ recoverPanics \in BOOLEAN
    /\ ctxDone = FALSE
    /\ idleAtCancel = FALSE
    /\ groupCancelled = FALSE
    /\ activeAttempts = 1
    /\ attemptsLaunched = 1
    /\ att = launch([i \in Idx |-> NoAttempt], 0, FALSE)
    /\ results = << >>
    /\ spawner = [pc |-> "start", hedgesLaunched |-> 0, elapsed |-> 0]
    /\ ticker = NoTicker
    /\ coord = [pc |-> "select", lastRel |-> NoResult, failures |-> 0,
                ret |-> [val |-> 0, err |-> NilErr, outcome |-> NoOutcome, ok |-> FALSE]]
    /\ terminal = "none"
    /\ crashed = FALSE

RetrySpec == InitRetry /\ [][Next]_vars

NextCall ==
    \/ CircuitCheck
    \/ \E i \in Idx : AttemptBudget(i)
    \/ \E i \in Idx : AttemptOpReturn(i)
    \/ \E i \in Idx : AttemptSend(i)
    \/ \E i \in Idx : AttemptRelease(i)
    \/ \E i \in Idx : AttemptExit(i)
    \/ SpawnerStart
    \/ CoordRecv
    \/ CoordLoad
    \/ CoordCtxDone
    \/ CancelCtx
    \/ NextGroup
    \/ Finalize

CallSpec == InitCall /\ [][NextCall]_vars

\* The normalization under study: the input policy p (or the key string
\* and the options given to policy.New), the result of Normalize or New
\* (out) and the result of normalizing that result (again).
NormInputs(policies, keys, optionLists) ==
    { [pc |-> "input", p |-> p, key |-> << >>, opts |-> << >>,
       out |-> NoNormalized, again |-> NoNormalized] : p \in policies }
    \cup
    { [pc |-> "new", p |-> ZeroPolicy, key |-> k, opts |-> os,
       out |-> NoNormalized, again |-> NoNormalized] :
        k \in keys, os \in {<< >>, <<[name |-> "EnableHedging"]>>} }
    \cup
    { [pc |-> "new", p |-> ZeroPolicy, key |-> <<"a", ".", "a">>, opts |-> os,
       out |-> NoNormalized, again |-> NoNormalized] : os \in optionLists }

\* A policy is normalized, or built by policy.New from every key string
\* with no option or one, or from one key with every list of options; no
\* call is running.
InitNorm ==
    /\ budget = NoBudget
    /\ norm \in NormInputs(InputPolicies(Bases), SeqsUpTo(Chars, MaxKeyLen),
                            SeqsUpTo(Options, MaxOptions))
    /\ call = NewCall("none")
    /\ pol \in {p \in Policies : ValidPolicy(p) /\ SingleGroup(p) /\ ~p.hedgeEnabled}
    /\ missingTriggerMode = FailureFallback
    /\ recoverPanics = FALSE
    /\ ctxDone = FALSE
    /\ idleAtCancel = FALSE
    /\ groupCancelled = FALSE
    /\ activeAttempts = 0
    /\ attemptsLaunched = 0
    /\ att = [i \in Idx |-> NoAttempt]
    /\ results = << >>
    /\ spawner = [pc |-> "none", hedgesLaunched |-> 0, elapsed |-> 0]
    /\ ticker = NoTicker
    /\ coord = [pc |-> "none", lastRel |-> NoResult, failures |-> 0,
                ret |-> [val |-> 0, err |-> NilErr, outcome |-> NoOutcome, ok |-> FALSE]]
    /\ terminal = "none"
    /\ crashed = FALSE

\* p.Normalize().
NormalizeCall ==
    /\ norm.pc = "input"
    /\ norm' = [norm EXCEPT !.pc = "normalized", !.out = Normalize(norm.p)]
    /\ UNCHANGED <<budget, call, pol, missingTriggerMode, recoverPanics, ctxDone,
                   idleAtCancel, groupCancelled, activeAttempts, attemptsLaunched,
                   att, results, spawner, ticker, coord, terminal, crashed>>

\* The engine normalizes at its boundary a policy its provider normalized.
NormalizeAgain ==
    /\ norm.pc = "normalized"
    /\ norm.out.err = NoNormalizeError
    /\ norm' = [norm EXCEPT !.pc = "renormalized", !.again = Normalize(norm.out.pol)]
    /\ UNCHANGED <<budget, call, pol, missingTriggerMode, recoverPanics, ctxDone,
                   idleAtCancel, groupCancelled, activeAttempts, attemptsLaunched,
                   att, results, spawner, ticker, coord, terminal, crashed>>

\* policy.New(key, opts...).
NewCallPolicy ==
    /\ norm.pc = "new"
    /\ norm' = [norm EXCEPT !.pc = "built",
                            !.out = [pol |-> New(norm.key, norm.opts),
                                     err |-> NoNormalizeError]]
    /\ UNCHANGED <<budget, call, pol, missingTriggerMode, recoverPanics, ctxDone,
                   idleAtCancel, groupCancelled, activeAttempts, attemptsLaunched,
                   att, results, spawner, ticker, coord, terminal, crashed>>

NextNorm ==
    \/ NormalizeCall
    \/ NormalizeAgain
    \/ NewCallPolicy

NormSpec == InitNorm /\ [][NextNorm]_vars

\* A token bucket without refill used by MaxWorkers goroutines, or a budget
\* registry (a nil one included) called with names and budgets of every
\* kind; no call is running.
InitBudget ==
    /\ budget \in { NewTokenBucketBudget(c, 0, n) :
                      c \in 1..MaxCapacity, n \in 1..MaxCallsPerWorker }
                  \cup { NewRegistry(isNil) : isNil \in BOOLEAN }
    /\ norm = NoNorm
    /\ call = NewCall("none")
    /\ pol \in {p \in Policies : ValidPolicy(p) /\ SingleGroup(p) /\ ~p.hedgeEnabled}
    /\ missingTriggerMode = FailureFallback
    /\ recoverPanics = FALSE
    /\ ctxDone = FALSE
    /\ idleAtCancel = FALSE
    /\ groupCancelled = FALSE
    /\ activeAttempts = 0
    /\ attemptsLaunched = 0
    /\ att = [i \in Idx |-> NoAttempt]
    /\ results = << >>
    /\ spawner = [pc |-> "none", hedgesLaunched |-> 0, elapsed |-> 0]
    /\ ticker = NoTicker
    /\ coord = [pc |-> "none", lastRel |-> NoResult, failures |-> 0,
                ret |-> [val |-> 0, err |-> NilErr, outcome |-> NoOutcome, ok |-> FALSE]]
    /\ terminal = "none"
    /\ crashed = FALSE

NextBudget ==
    \/ \E i \in Workers : AllowAttemptLock(i)
    \/ \E i \in Workers : AllowAttemptRead(i)
    \/ \E i \in Workers : AllowAttemptTake(i)
    \/ \E i \in Workers : AllowAttemptReturn(i)
    \/ RegisterECall
    \/ GetCall

BudgetSpec == InitBudget /\ [][NextBudget]_vars

\* Policies with hedging enabled and up to MaxHedgesRunning hedges, whose
\* trigger is the fixed-delay one (no TriggerName), a name missing from the
\* registry, or a registered trigger that panics.
RunningPolicies ==
    { [hedgeEnabled |-> TRUE, maxHedges |-> mh, hedgeDelay |-> d, trigger |-> tr,
       cancelOnFirstTerminal |-> c,
       maxAttempts |-> 1, initialBackoff |-> 2, multiplier |-> 1,
       maxBackoff |-> 3, jitter |-> "none"] :
        mh \in 1..MaxHedgesRunning, d \in HedgeDelays,
        tr \in {"fixed", "missing", "panics"}, c \in BOOLEAN }

\* The one group of a call whose op does not return while the group runs.
InitHedge ==
    /\ budget = NoBudget
    /\ norm = NoNorm
    /\ call = NewCall("group")
    /\ pol \in RunningPolicies
    /\ missingTriggerMode \in {FailureFallback, FailureDeny}
    /\ recoverPanics \in BOOLEAN
    /\ ctxDone = FALSE
    /\ idleAtCancel = FALSE
    /\ groupCancelled = FALSE
    /\ activeAttempts = 1
    /\ attemptsLaunched = 1
    /\ att = launch([i \in Idx |-> NoAttempt], 0, FALSE)
    /\ results = << >>
    /\ spawner = [pc |-> "start", hedgesLaunched |-> 0, elapsed |-> 0]
    /\ ticker = NoTicker
    /\ coord = [pc |-> "select", lastRel |-> NoResult, failures |-> 0,
                ret |-> [val |-> 0, err |-> NilErr, outcome |-> NoOutcome, ok |-> FALSE]]
    /\ terminal = "none"
    /\ crashed = FALSE

\* The attempts the budget allows stay inside op.
NextHedge ==
    \/ \E i \in Idx : AttemptBudget(i)
    \/ \E i \in Idx : AttemptSend(i)
    \/ \E i \in Idx : AttemptExit(i)
    \/ SpawnerStart
    \/ SpawnerGroupDone
    \/ SpawnerTick
    \/ SpawnerEval
    \/ TickerFire
    \/ CoordRecv
    \/ CoordLoad
    \/ CoordCtxDone
    \/ CancelCtx
    \/ Finalize

HedgeSpec == InitHedge /\ [][NextHedge]_vars

\* The one group of a call whose panics are recovered.
InitLive == Init /\ recoverPanics

\* The caller never cancels ctx.
NextLive ==
    \/ \E i \in Idx : AttemptBudget(i)
    \/ \E i \in Idx : AttemptOpReturn(i)
    \/ \E i \in Idx : AttemptSend(i)
    \/ \E i \in Idx : AttemptRelease(i)
    \/ \E i \in Idx : AttemptExit(i)
    \/ SpawnerStart
    \/ SpawnerGroupDone
    \/ SpawnerTick
    \/ SpawnerEval
    \/ TickerFire
    \/ CoordRecv
    \/ CoordLoad
    \/ Finalize

\* The Go scheduler runs every goroutine that can take a step, every op
\* returns, and the ticker keeps firing while it runs.
Fairness ==
    /\ \A i \in Idx : /\ WF_vars(AttemptBudget(i))
                      /\ WF_vars(AttemptOpReturn(i))
                      /\ WF_vars(AttemptSend(i))
                      /\ WF_vars(AttemptRelease(i))
                      /\ WF_vars(AttemptExit(i))
    /\ WF_vars(SpawnerStart)
    /\ WF_vars(SpawnerGroupDone)
    /\ WF_vars(SpawnerTick)
    /\ WF_vars(SpawnerEval)
    /\ WF_vars(TickerFire)
    /\ WF_vars(CoordRecv)
    /\ WF_vars(CoordLoad)
    /\ WF_vars(Finalize)

LiveSpec == InitLive /\ [][NextLive]_vars /\ Fairness

TypeOK ==
    /\ activeAttempts \in 0..(1 + MaxIdx)
    /\ attemptsLaunched \in 0..(1 + MaxIdx)
    /\ call.retryIdx \in 0..(MaxAttemptsBound - 1)
    /\ Len(results) <= 1 + maxHedges
    /\ spawner.hedgesLaunched \in 0..MaxIdx

(* ------------------- vocabulary of the properties ---------------------- *)

\* Attempt i has produced its result: op returned and was classified, or
\* the budget denied it.
Completed(i) == att[i].pc \in {"send", "release", "dec", "done"} /\ ~att[i].panicking

\* Attempt i invoked op and op has returned.
Ran(i) == Completed(i) /\ att[i].ran

\* Attempt i was refused by its budget.
Denied(i) == Completed(i) /\ ~att[i].allowed

\* The result of attempt i is in the channel.
InChannel(i) == \E k \in 1..Len(results) : results[k].idx = i

\* The coordinator has taken the result of attempt i from the channel.
Received(i) == att[i].pc \in {"release", "dec", "done"} /\ ~att[i].panicking /\ ~InChannel(i)

\* The budget returned a Release handle for attempt i.
HandleReturned(i) == att[i].pc \notin {"none", "budget"} /\ att[i].hasRelease

\* doRetryGroup returns in this step.
Returns == coord.pc # "returned" /\ coord'.pc = "returned"

\* Precedence of the failures: NonRetryable > Abort > Retryable.
Rank(kind) ==
    IF kind = OutcomeNonRetryable THEN 3
    ELSE IF kind = OutcomeAbort THEN 2
    ELSE IF kind = OutcomeRetryable THEN 1
    ELSE 0

(* ------------------------------ C1 ------------------------------------- *)

\* C1: with CancelOnFirstTerminal=false, no cancellation by the caller and
\* no denied attempt, the group returns a non-success outcome only if no
\* attempt of the group has completed with Success at that moment.
C1_SuccessTakesPrecedence ==
    [][(Returns /\ ~pol.cancelOnFirstTerminal /\ ~ctxDone
        /\ (\A i \in Idx : ~Denied(i))
        /\ coord'.ret.outcome.kind # OutcomeSuccess)
       => ~\E i \in Idx : Ran(i) /\ att[i].res.outcome.kind = OutcomeSuccess]_vars

(* ------------------------------ C2 ------------------------------------- *)

\* C2: with CancelOnFirstTerminal=false, no cancellation by the caller, no
\* denied attempt and no Success, the outcome the group returns has the
\* highest precedence among the outcomes of its completed attempts.
C2_HighestPrecedenceFailure ==
    [][(Returns /\ ~pol.cancelOnFirstTerminal /\ ~ctxDone
        /\ (\A i \in Idx : ~Denied(i))
        /\ (\A i \in Idx : Ran(i) => att[i].res.outcome.kind # OutcomeSuccess))
       => \A i \in Idx : Ran(i) =>
            Rank(coord'.ret.outcome.kind) >= Rank(att[i].res.outcome.kind)]_vars

(* ------------------------------ C3 ------------------------------------- *)

\* C3: the result the group returns is never the synthetic result of a
\* hedge that its budget denied.
C3_HedgeDenialNeverReturned ==
    coord.pc = "returned" =>
        ~(/\ coord.lastRel.isHedge
          /\ coord.lastRel.outcome.reason = "budget_denied"
          /\ coord.ret.outcome = coord.lastRel.outcome
          /\ coord.ret.err = coord.lastRel.err)

(* ------------------------------ C4 ------------------------------------- *)

\* C4: when the caller's ctx became done with no result in the channel
\* and the coordinator then returns from its wait, it returns ctx.Err()
\* with an Abort outcome and ok=false.
C4_ExternalCancelWins ==
    [][(Returns /\ coord.pc = "select" /\ ctxDone /\ idleAtCancel)
       => /\ coord'.ret.err = CtxErr
          /\ coord'.ret.outcome.kind = OutcomeAbort
          /\ ~coord'.ret.ok]_vars

(* ------------------------------ C5 ------------------------------------- *)

\* C5: after the terminal callback (OnSuccess or OnFailure) no attempt of
\* the call is recorded, and the terminal callback never fires again.
C5_NoAttemptAfterTerminal ==
    [][terminal # "none"
       => /\ terminal' = terminal
          /\ \A i \in Idx : att'[i].recorded = att[i].recorded]_vars

(* ------------------------------ C6 ------------------------------------- *)

\* C6: when doRetryGroup returns, every attempt goroutine has finished and
\* the spawner goroutine has exited.
C6_NoGoroutineOutlivesGroup ==
    [][Returns => activeAttempts' = 0 /\ spawner'.pc = "exited"]_vars

(* ------------------------------ C7 ------------------------------------- *)

\* C7: Release is invoked at most once, only after op has returned, never
\* for a denied attempt, and exactly once by the time the goroutine of an
\* allowed attempt with a Release handle ends, whatever way op ended.
C7_ReleaseExactlyOnce ==
    \A i \in Idx :
        /\ att[i].released <= 1
        /\ att[i].released = 1 =>
              /\ att[i].allowed /\ att[i].hasRelease
              /\ att[i].opCalls = 1
              /\ att[i].pc \in {"dec", "done"}
        /\ (att[i].pc = "done" /\ att[i].allowed /\ att[i].hasRelease)
              => att[i].released = 1

\* An attempt cancelled with the group and one stopped by a recovered
\* classifier panic have both ended with their handle released once.
C7_Witness ==
    \E i, j \in Idx :
        /\ att[i].pc = "done" /\ att[i].released = 1
        /\ att[i].res.outcome.reason = "context_canceled"
        /\ att[j].pc = "done" /\ att[j].released = 1
        /\ att[j].res.outcome.reason = "panic_in_classifier"

(* ------------------------------ C8 ------------------------------------- *)

\* C8: when the terminal callback has run, every Release handle a budget
\* decision returned has been invoked.
C8_ReleasedBeforeTerminal ==
    terminal # "none" =>
        \A i \in Idx : HandleReturned(i) => att[i].released = 1

(* ------------------------------ C9 ------------------------------------- *)

\* C9: with CancelOnFirstTerminal=true, a NonRetryable or Abort result of an
\* attempt that ran, once received, has ended the group with that attempt's
\* outcome and error and the group context is cancelled.
C9_FailFastEndsGroup ==
    (/\ pol.cancelOnFirstTerminal
     /\ coord.lastRel.outcome.kind \in {OutcomeNonRetryable, OutcomeAbort}
     /\ coord.lastRel.val # 0)
    => /\ coord.pc = "returned"
       /\ coord.ret.outcome = coord.lastRel.outcome
       /\ coord.ret.err = coord.lastRel.err
       /\ coord.ret.val = coord.lastRel.val
       /\ ~coord.ret.ok
       /\ groupCancelled

\* The group has failed fast on an Abort while a sibling was still in op.
C9_Witness ==
    /\ pol.cancelOnFirstTerminal
    /\ coord.pc = "returned"
    /\ coord.lastRel.outcome.kind = OutcomeAbort
    /\ coord.lastRel.val # 0
    /\ coord.ret.outcome = coord.lastRel.outcome
    /\ \E i \in Idx : i # coord.lastRel.idx /\ att[i].pc = "op"
    /\ groupCancelled

(* ------------------------------ C10 ------------------------------------ *)

\* C10: with CancelOnFirstTerminal=false, once the coordinator has received
\* a NonRetryable or Abort result of an attempt that ran (and the group has
\* neither returned nor been cancelled), no further hedge is launched.
C10_NoHedgeAfterTerminal ==
    [][(/\ ~pol.cancelOnFirstTerminal
        /\ coord.pc # "returned"
        /\ ~ctxDone
        /\ \E i \in Idx : /\ Received(i) /\ att[i].ran
                          /\ att[i].res.outcome.kind \in {OutcomeNonRetryable, OutcomeAbort})
       => attemptsLaunched' = attemptsLaunched]_vars

(* ------------------------------ C11 ------------------------------------ *)

\* C11: an attempt whose op returns after the engine itself cancelled the
\* group because a sibling won (the caller's ctx is not done) and is
\* classified Abort is recorded, and reported to the coordinator, with the
\* reason canceled_internal.
C11_InternalCancelRecorded ==
    [][\A i \in Idx :
        (/\ att[i].pc = "op" /\ att'[i].pc = "send"
         /\ groupCancelled /\ ~ctxDone /\ coord.ret.ok
         /\ att'[i].res.outcome.kind = OutcomeAbort
         /\ ~att'[i].res.panicErr)
        => att'[i].res.outcome.reason = "canceled_internal"]_vars

(* ------------------------------ C12 ------------------------------------ *)

\* The attempt has consulted its budget (and so fixed its Attempt value).
Gated(i) == att[i].pc \notin {"none", "budget"}

\* C12: two attempts of one retry group carry different Attempt values, the
\* one launched later the larger one.
C12_AttemptIndexUnique ==
    \A i, j \in Idx :
        (i < j /\ Gated(i) /\ Gated(j)) => att[i].attempt < att[j].attempt

(* ------------------------------ C13 ------------------------------------ *)

\* Attempt i of the group has been launched.
Launched(i) == att[i].pc # "none"

C14_AttemptBounds ==
    /\ attemptsLaunched <= 1 + maxHedges
    /\ ~pol.hedgeEnabled => attemptsLaunched <= 1
    /\ attemptRecords <= pol.maxAttempts * (1 + maxHedges)
    /\ (terminal # "none" /\ call.synthetic = NoOutcome) => attemptRecords >= 1

(* ------------------------------ C15 ------------------------------------ *)

\* C15: op is invoked at most once per attempt and only after an allowed
\* budget decision for that attempt; a denied attempt never invokes op and
\* has exactly one record, an Abort carrying the denial reason, which is
\* also the result it sends.
C15_OpOnlyWhenAllowed ==
    \A i \in Idx :
        /\ att[i].opCalls <= 1
        /\ att[i].opCalls = 1 => att[i].allowed
        /\ (Gated(i) /\ ~att[i].allowed) =>
              /\ att[i].opCalls = 0 /\ ~att[i].ran
              /\ att[i].recorded = 1
              /\ att[i].res.outcome = Outcome(OutcomeAbort, "budget_denied")
              /\ att[i].res.err = ReasonErr("budget_denied")

\* A denied hedge has finished beside a primary that invoked op.
C15_Witness ==
    \E i, j \in Idx :
        /\ att[i].pc = "done" /\ ~att[i].allowed /\ att[i].recorded = 1
        /\ att[j].opCalls = 1 /\ att[j].ran

(* ------------------------------ C16 ------------------------------------ *)

\* The op of hedge i returned Success while the primary was inside op.
HedgeSucceededFirst(i) ==
    /\ att[i].isHedge /\ Ran(i) /\ att[i].succeededFirst
    /\ att[i].res.outcome.kind = OutcomeSuccess

\* C16: when the op of a hedge returned Success while the primary was
\* inside op (CancelOnFirstTerminal=false, the caller's ctx not done, the
\* primary itself not successful), the group returns that hedge's value
\* with a nil error and ok=true, and the hedge has its attempt record.
C16_HedgeWins ==
    [][(/\ Returns /\ ~pol.cancelOnFirstTerminal /\ ~ctxDone
        /\ ~(Ran(0) /\ att[0].res.outcome.kind = OutcomeSuccess)
        /\ \E i \in Idx : HedgeSucceededFirst(i))
       => \E i \in Idx :
            /\ HedgeSucceededFirst(i)
            /\ coord'.ret.val = att[i].res.val
            /\ coord'.ret.err = NilErr
            /\ coord'.ret.ok
            /\ att[i].recorded = 1]_vars

(* ------------------------------ C17 ------------------------------------ *)

\* C17: a further retry group starts only after a group that returned
\* Retryable and while fewer than MaxAttempts groups have run; once the call
\* has ended (the caller's ctx not done) no group starts and op is not
\* invoked any more; a call that ended with NonRetryable in its first group
\* has one op invocation and one record.
C17_RetryOnlyRetryable ==
    [][/\ call'.retryIdx # call.retryIdx =>
            /\ call'.retryIdx = call.retryIdx + 1
            /\ call'.retryIdx < pol.maxAttempts
            /\ coord.pc = "returned"
            /\ coord.ret.outcome.kind = OutcomeRetryable
       /\ (call.pc = "done" /\ ~ctxDone) =>
            /\ call'.pc = "done" /\ call'.retryIdx = call.retryIdx
            /\ opInvocations' = opInvocations
       /\ (/\ call'.pc = "done" /\ call'.retryIdx = 0
           /\ coord'.ret.outcome.kind = OutcomeNonRetryable) =>
            /\ attemptRecords' = 1
            /\ opInvocations' = 1]_vars

(* ------------------------------ C18 ------------------------------------ *)

\* C18: when the call has ended in a group after the first whose primary
\* the retry budget denied, the coordinator having taken the denial (and
\* the caller's ctx not done), the denied attempt did not invoke op, the
\* call's error is the error the previous group returned from its op, the
\* terminal callback is OnFailure and stopped_due_to_budget is set.
C18_BudgetStopsRetries ==
    (/\ call.pc = "done" /\ call.retryIdx > 0 /\ ~ctxDone
     /\ Denied(0) /\ Received(0)) =>
        /\ att[0].opCalls = 0
        /\ call.err = call.lastErr
        /\ call.err = OpErr(0)
        /\ call.stoppedDueToBudget
        /\ terminal = "failure"

(* ------------------------------ C19 ------------------------------------ *)

\* The backoff slept after group k, computed step by step: InitialBackoff,
\* then the previous term times the multiplier, each capped at MaxBackoff.
RECURSIVE BackoffTerm(_, _)
BackoffTerm(p, k) ==
    IF k = 0 THEN Min(p.initialBackoff, p.maxBackoff)
    ELSE Min(BackoffTerm(p, k - 1) * p.multiplier, p.maxBackoff)

C21_NormalizeIdempotent ==
    norm.pc = "renormalized" =>
        /\ norm.again.err = NoNormalizeError
        /\ norm.again.pol = norm.out.pol

\* A policy whose InitialBackoff is above the ceiling of MaxBackoff, so
\* that the second normalization clamps MaxBackoff and raises it again.
C21_Witness ==
    /\ norm.pc = "renormalized"
    /\ norm.p.Retry.InitialBackoff > maxBackoffCeiling
    /\ norm.out.pol.Meta.Normalization.Changed
    /\ norm.out.pol # norm.p

(* ------------------------------ C22 ------------------------------------ *)

\* C22: the result of a successful Normalize has
\* 1ms <= Retry.InitialBackoff <= Retry.MaxBackoff <= 30s.
C22_BackoffRange ==
    (norm.pc = "normalized" /\ norm.out.err = NoNormalizeError) =>
        /\ minBackoffFloor <= norm.out.pol.Retry.InitialBackoff
        /\ norm.out.pol.Retry.InitialBackoff <= norm.out.pol.Retry.MaxBackoff
        /\ norm.out.pol.Retry.MaxBackoff <= maxBackoffCeiling

(* ------------------------------ C23 ------------------------------------ *)

\* C23: the result of a successful Normalize of a policy with
\* Circuit.Enabled has Circuit.Threshold >= 1 and Circuit.Cooldown >= 100ms.
C23_CircuitFloors ==
    (/\ norm.pc = "normalized" /\ norm.out.err = NoNormalizeError
     /\ norm.p.Circuit.Enabled) =>
        /\ norm.out.pol.Circuit.Enabled
        /\ norm.out.pol.Circuit.Threshold >= minCircuitThreshold
        /\ norm.out.pol.Circuit.Cooldown >= minCircuitCooldown

(* ------------------------------ C24 ------------------------------------ *)

\* a <= m <= b for float64 values.
FloatBetween(m, a, b) == ~m.nan /\ a.v <= m.v /\ m.v <= b.v

\* C24: the result of a successful Normalize has MaxAttempts in 1..10,
\* BackoffMultiplier in [1,10], both budget costs >= 1, each timeout 0 or
\* >= 1ms and, with hedging enabled, MaxHedges in 1..3 and HedgeDelay >= 10ms.
C24_StormGuardrails ==
    (norm.pc = "normalized" /\ norm.out.err = NoNormalizeError) =>
        LET q == norm.out.pol
        IN /\ q.Retry.MaxAttempts \in 1..maxRetryAttempts
           /\ FloatBetween(q.Retry.BackoffMultiplier, Float(10), maxBackoffMultiplier)
           /\ q.Retry.Budget.Cost >= 1
           /\ q.Hedge.Budget.Cost >= 1
           /\ q.Retry.TimeoutPerAttempt = 0 \/ q.Retry.TimeoutPerAttempt >= minTimeoutFloor
           /\ q.Retry.OverallTimeout = 0 \/ q.Retry.OverallTimeout >= minTimeoutFloor
           /\ q.Hedge.Enabled =>
                 /\ q.Hedge.MaxHedges \in 1..maxHedgesCeiling
                 /\ q.Hedge.HedgeDelay >= minHedgeDelayFloor

(* ------------------------------ C25 ------------------------------------ *)

\* C25: Normalize fails exactly on a Retry.Jitter that is none of "", none,
\* full, equal, and then returns the zero policy with a NormalizeError that
\* names the field retry.jitter.
C25_InvalidJitter ==
    norm.pc = "normalized" =>
        IF norm.p.Retry.Jitter \in {"", JitterNone, JitterFull, JitterEqual}
        THEN norm.out.err = NoNormalizeError
        ELSE /\ norm.out.err = NormalizeError("retry.jitter", norm.p.Retry.Jitter)
             /\ norm.out.pol = ZeroPolicy

C25_Witness ==
    /\ norm.pc = "normalized"
    /\ norm.p.Retry.Jitter = "bogus"
    /\ norm.out.err.Field = "retry.jitter"

(* ------------------------------ C26 ------------------------------------ *)

\* C26: policy.New returns a policy that is not the zero policy, carries
\* the parsed key, and is the normalized defaults-plus-options policy, or
\* the normalized default policy of the key when that normalization fails.
C26_NewNeverZero ==
    norm.pc = "built" =>
        LET key == ParseKey(norm.key)
            n == Normalize(applyOptions(DefaultPolicyFor(key), norm.opts))
        IN /\ norm.out.pol # ZeroPolicy
           /\ norm.out.pol.Key = key
           /\ norm.out.pol.Retry.MaxAttempts >= 1
           /\ norm.out.pol = IF n.err = NoNormalizeError THEN n.pol
                             ELSE Normalize(DefaultPolicyFor(key)).pol

\* New was given an invalid jitter option and fell back to the defaults.
C26_Witness ==
    /\ norm.pc = "built"
    /\ \E k \in 1..Len(norm.opts) :
          norm.opts[k].name = "Jitter" /\ norm.opts[k].j = "bogus"
    /\ norm.out.pol = Normalize(DefaultPolicyFor(ParseKey(norm.key))).pol
    /\ norm.out.pol.Key.Name # << >>

(* ------------------------------ C27 ------------------------------------ *)

\* The typed *PanicError of a component.
PanicError(component) == [src |-> "panic_in_" \o component, idx |-> 0]

\* C27: with RecoverPanics, when the classifier panics on the result of an
\* attempt the panic is recovered (the goroutine does not unwind and the
\* process goes on), the attempt's outcome is Abort/panic_in_classifier,
\* and when the group returns that outcome it returns a *PanicError of the
\* classifier as its error.
C27_ClassifierPanicRecovered ==
    [][/\ recoverPanics => ~crashed'
       /\ \A i \in Idx :
            (/\ recoverPanics /\ att[i].pc = "op" /\ att'[i].pc # "op"
             /\ att'[i].res.panicErr) =>
                /\ att'[i].pc = "send" /\ ~att'[i].panicking
                /\ att'[i].recorded = att[i].recorded + 1
                /\ att'[i].res.outcome = Outcome(OutcomeAbort, "panic_in_classifier")
       /\ (/\ Returns /\ recoverPanics
           /\ coord'.ret.outcome = Outcome(OutcomeAbort, "panic_in_classifier")) =>
                coord'.ret.err = PanicError("classifier")]_vars

(* ------------------------------ C28 ------------------------------------ *)

\* C28: with RecoverPanics, the step in which the trigger's
\* ShouldSpawnHedge panics leaves the process running (the panic does not
\* escape the spawner goroutine) and launches no hedge.
C28_TriggerPanicRecovered ==
    [][(/\ recoverPanics /\ spawner.pc = "eval" /\ spawner'.pc # "eval"
        /\ resolveTrigger = "panics") =>
            /\ ~crashed'
            /\ att' = att]_vars

(* ------------------------------ C29 ------------------------------------ *)

\* No attempt of the group has finished: each is not launched, at its
\* budget gate or inside op.
Undecided ==
    /\ ~groupCtxDone
    /\ att[0].pc \in {"budget", "op"}
    /\ \A i \in Idx : att[i].pc \in {"none", "budget", "op"}

\* C29: with the fixed-delay trigger (no TriggerName), while no attempt has
\* finished, a tick at which a further HedgeDelay has elapsed for each
\* hedge launched so far launches the next hedge (up to MaxHedges).
C29_FixedDelayHedgesUpToMax ==
    [][(/\ pol.trigger = "fixed" /\ Undecided
        /\ spawner.pc = "eval" /\ spawner'.pc # "eval"
        /\ spawner.hedgesLaunched < maxHedges
        /\ spawner.elapsed >= (spawner.hedgesLaunched + 1) * pol.hedgeDelay) =>
            /\ spawner'.hedgesLaunched = spawner.hedgesLaunched + 1
            /\ att'[spawner.hedgesLaunched + 1].pc = "budget"]_vars

(* ------------------------------ C30 ------------------------------------ *)

\* C30: with a TriggerName that is not registered, under FailureDeny no
\* hedge is launched, and under FailureFallback a tick launches a hedge
\* exactly when FixedDelay{HedgeDelay} says so.
C30_MissingTriggerMode ==
    [][pol.trigger = "missing" =>
        /\ missingTriggerMode = FailureDeny =>
              \A i \in 1..MaxIdx : att'[i].pc = "none"
        /\ (/\ missingTriggerMode = FailureFallback
            /\ spawner.pc = "eval" /\ spawner'.pc # "eval") =>
              LET state == [attemptsLaunched |-> 1 + spawner.hedgesLaunched,
                            maxHedges |-> maxHedges, elapsed |-> spawner.elapsed]
              IN (spawner'.hedgesLaunched = spawner.hedgesLaunched + 1)
                    <=> FixedDelayShouldSpawnHedge(pol.hedgeDelay, state).should]_vars


(* ------------------------------ budgets -------------------------------- *)

\* allowedCount and deniedCount of the concurrency test.
AllowedCount ==
    SumTo([i \in 0..MaxWorkers |-> IF i = 0 THEN 0 ELSE budget.w[i].allowedCount],
          MaxWorkers)

DeniedCount ==
    SumTo([i \in 0..MaxWorkers |-> IF i = 0 THEN 0 ELSE budget.w[i].deniedCount],
          MaxWorkers)

\* Every worker has made all its calls.
AllWorkersDone == \A i \in Workers : budget.w[i].pc = "call" /\ budget.w[i].left = 0

ExpectedGet(name) ==
    IF budget.registered[TrimSpace(name)] # NoEntry
    THEN [b |-> budget.registered[TrimSpace(name)], ok |-> TRUE]
    ELSE [b |-> NilBudget, ok |-> FALSE]

\* C32: a RegisterE that returns an error leaves the registry as it was,
\* and Get(name), for every name and in the Get calls made, returns
\* (b, true) exactly when b is the budget of the last RegisterE without
\* error under the trimmed name, and (nil, false) otherwise.
C32_RegistryContents ==
    /\ [](budget.pc = "registry" =>
            /\ \A name \in RegistryNames : Get(budget, name) = ExpectedGet(name)
            /\ budget.last.op = "Get" =>
                 [b |-> budget.last.b, ok |-> budget.last.ok]
                     = ExpectedGet(budget.last.name))
    /\ [][(/\ budget.pc = "registry"
           /\ budget'.ops = budget.ops + 1
           /\ budget'.last.op = "RegisterE"
           /\ budget'.last.err # NoRegistryError)
          => (budget'.m = budget.m /\ budget'.isNil = budget.isNil)]_vars

\* After two other calls, Get of a name with a leading space has returned
\* the budget registered under the trimmed name.
C32_Witness ==
    /\ budget.pc = "registry"
    /\ budget.ops = 3
    /\ budget.last.op = "Get"
    /\ budget.last.name = <<" ", "a">>
    /\ budget.last.ok
    /\ budget.last.b.id = 2
    /\ budget.m[<<"a">>].id = 2

(* ---------------------------- termination ----------------------------- *)

\* C33: when every op returns, the caller's ctx is never cancelled and the
\* goroutines are scheduled fairly, doRetryGroup eventually returns: the
\* coordinator is not left waiting on the result channel.
C33_GroupTerminates == <>(coord.pc = "returned")

(* ------------------------- result channel ------------------------------ *)

\* Attempt i has sent its result on the channel.
Sent(i) == att[i].pc \in {"release", "dec", "done"} /\ ~att[i].panicking

\* C34: the attempts that have sent or are about to send a result are never
\* more than the capacity 1 + MaxHedges of the result channel, and an
\* attempt at its send always finds room in the channel, also after the
\* coordinator has returned and receives no more.
C34_SendNeverBlocks ==
    /\ Cardinality({i \in Idx : Sent(i) \/ att[i].pc = "send"}) <= resultsCap
    /\ \A i \in Idx : att[i].pc = "send" => Len(results) < resultsCap

\* The coordinator has returned without receiving, and the results of the
\* primary and of a hedge have both been sent into the channel since.
C34_Witness ==
    /\ coord.pc = "returned"
    /\ maxHedges >= 1
    /\ Len(results) = 1 + maxHedges
    /\ \A i \in 0..maxHedges : Sent(i)

(* ----------------------- after the group ended ------------------------- *)

\* C35: once doRetryGroup has returned, no hedge is launched for the group:
\* the number of launched attempts stays as it is, no further budget is
\* consulted for a new attempt and op is not invoked by one.
C35_NoLaunchAfterReturn ==
    [][coord.pc = "returned" =>
          /\ attemptsLaunched' = attemptsLaunched
          /\ \A i \in Idx : att[i].pc = "none" => att'[i].pc = "none"]_vars

(* --------------------------- check interval ---------------------------- *)

\* C36: after every trigger evaluation the spawner waits max(nextCheckIn,
\* 25ms) for the next one, nextCheckIn being what the trigger returned in
\* that evaluation: never less than the floor interval.
C36_NextEvaluationFloor ==
    [][(spawner.pc = "eval" /\ spawner'.pc = "select") =>
          LET state == [attemptsLaunched |-> 1 + spawner.hedgesLaunched,
                        maxHedges |-> maxHedges, elapsed |-> spawner.elapsed]
          IN \E r \in ShouldSpawnHedge(state) :
                /\ ~r.panics
                /\ r.should = (attemptsLaunched' # attemptsLaunched)
                /\ ticker'.period =
                       IF r.nextCheck * TimeUnit > defaultCheckInterval
                       THEN r.nextCheck * TimeUnit ELSE defaultCheckInterval]_vars

(* ---------------------------- group context ---------------------------- *)

\* Attempt i is in flight: launched and not yet past op.
InFlight(i) == att[i].pc \in {"budget", "op"}

\* C37: whichever way doRetryGroup has returned, the group context is
\* cancelled and every attempt still in flight sees its own context done.
C37_GroupCtxCancelledOnReturn ==
    coord.pc = "returned" =>
        /\ groupCancelled
        /\ \A i \in Idx : InFlight(i) => attemptCtxDone(i)

\* The group returned the success of one attempt while the other is still
\* inside op, the caller's ctx not being cancelled.
C37_Witness ==
    /\ coord.pc = "returned"
    /\ coord.ret.ok
    /\ ~ctxDone
    /\ \E i \in Idx : att[i].pc = "op"

(* --------------------------- release order ----------------------------- *)

\* The Release handle of attempt i has been called.
Released(i) == att[i].allowed /\ att[i].released > 0

\* Release of attempt i came after its op invocation ended (not before it
\* nor while it ran) and before its activeAttempts decrement.
ReleaseOrdered(i) ==
    /\ Released(i) => att[i].pc \in {"dec", "done"}
    /\ (att[i].pc = "done" /\ att[i].allowed /\ att[i].hasRelease) => Released(i)

FieldPaths ==
    {"retry.max_attempts", "retry.initial_backoff", "retry.max_backoff",
     "retry.backoff_multiplier", "retry.jitter", "retry.timeout_per_attempt",
     "retry.overall_timeout", "retry.budget.cost", "hedge.budget.cost",
     "hedge.max_hedges", "hedge.hedge_delay", "circuit.threshold",
     "circuit.cooldown"}

\* The value of the field of policy p at a path.
FieldValue(p, path) ==
    CASE path = "retry.max_attempts" -> p.Retry.MaxAttempts
      [] path = "retry.initial_backoff" -> p.Retry.InitialBackoff
      [] path = "retry.max_backoff" -> p.Retry.MaxBackoff
      [] path = "retry.backoff_multiplier" -> p.Retry.BackoffMultiplier
      [] path = "retry.jitter" -> p.Retry.Jitter
      [] path = "retry.timeout_per_attempt" -> p.Retry.TimeoutPerAttempt
      [] path = "retry.overall_timeout" -> p.Retry.OverallTimeout
      [] path = "retry.budget.cost" -> p.Retry.Budget.Cost
      [] path = "hedge.budget.cost" -> p.Hedge.Budget.Cost
      [] path = "hedge.max_hedges" -> p.Hedge.MaxHedges
      [] path = "hedge.hedge_delay" -> p.Hedge.HedgeDelay
      [] path = "circuit.threshold" -> p.Circuit.Threshold
      [] path = "circuit.cooldown" -> p.Circuit.Cooldown

\* Policy q with the fields of FieldPaths and the metadata taken from p.
WithFieldsOf(q, p) ==
    [q EXCEPT !.Retry.MaxAttempts = p.Retry.MaxAttempts,
              !.Retry.InitialBackoff = p.Retry.InitialBackoff,
              !.Retry.MaxBackoff = p.Retry.MaxBackoff,
              !.Retry.BackoffMultiplier = p.Retry.BackoffMultiplier,
              !.Retry.Jitter = p.Retry.Jitter,
              !.Retry.TimeoutPerAttempt = p.Retry.TimeoutPerAttempt,
              !.Retry.OverallTimeout = p.Retry.OverallTimeout,
              !.Retry.Budget.Cost = p.Retry.Budget.Cost,
              !.Hedge.Budget.Cost = p.Hedge.Budget.Cost,
              !.Hedge.MaxHedges = p.Hedge.MaxHedges,
              !.Hedge.HedgeDelay = p.Hedge.HedgeDelay,
              !.Circuit.Threshold = p.Circuit.Threshold,
              !.Circuit.Cooldown = p.Circuit.Cooldown,
              !.Meta.Normalization = p.Meta.Normalization]

\* Normalize has returned a policy for an input whose normalization
\* metadata was empty.
NormalizedFromEmptyMeta ==
    /\ norm.pc \in {"normalized", "renormalized"}
    /\ norm.out.err = NoNormalizeError
    /\ norm.p.Meta.Normalization = NormalizationInfo(FALSE, << >>)

\* C40: for an input policy with empty normalization metadata, every field
\* whose value Normalize changed has its path in ChangedFields (and no
\* field without a path is changed), no path is listed twice, and Changed
\* is true exactly when ChangedFields is not empty.
C40_ChangedFieldsRecorded ==
    NormalizedFromEmptyMeta =>
        LET info == norm.out.pol.Meta.Normalization
            listed == {info.ChangedFields[k] : k \in 1..Len(info.ChangedFields)}
        IN /\ \A path \in FieldPaths :
                 FieldValue(norm.out.pol, path) # FieldValue(norm.p, path)
                     => path \in listed
           /\ WithFieldsOf(norm.out.pol, norm.p) = norm.p
           /\ Cardinality(listed) = Len(info.ChangedFields)
           /\ info.Changed <=> (info.ChangedFields # << >>)

\* A policy with hedging whose MaxBackoff (by two clamps, InitialBackoff
\* being above the ceiling) and HedgeDelay were rewritten, with three
\* paths or more listed.
C40_Witness ==
    /\ NormalizedFromEmptyMeta
    /\ norm.p.Hedge.Enabled
    /\ norm.p.Retry.InitialBackoff > maxBackoffCeiling
    /\ norm.out.pol.Retry.MaxBackoff # norm.p.Retry.MaxBackoff
    /\ norm.out.pol.Hedge.HedgeDelay # norm.p.Hedge.HedgeDelay
    /\ Len(norm.out.pol.Meta.Normalization.ChangedFields) >= 3

====
